---- MODULE Spec2Model ----
(***************************************************************************)
(* State-machine model of the EPH swarm simulator (rash0402/crlEPH-dlc):   *)
(* the legacy Python core (Simulator, Environment, Agent, toroidal         *)
(* geometry) and the self-haze / precision pipeline of the two EPH         *)
(* controllers.                                                            *)
(*                                                                         *)
(* Numbers.  The program computes in floating point; the model computes in *)
(* exact rational arithmetic.  A rational is a pair <<n, d>> in lowest     *)
(* terms with d > 0.  Square roots are taken only of perfect squares: the  *)
(* scenarios of every specification are laid out so that each distance or  *)
(* speed the code takes a root of is rational (points on a common line, or *)
(* Pythagorean offsets).  The 1e-8 guards added to divisors are dropped.   *)
(***************************************************************************)
EXTENDS Integers, Sequences, FiniteSets, TLC

----------------------------------------------------------------------------
(* Exact rational arithmetic.                                              *)

RECURSIVE Gcd(_, _)
Gcd(a, b) == IF b = 0 THEN a ELSE Gcd(b, a % b)

IAbs(n) == IF n < 0 THEN -n ELSE n

\* the element of a singleton set: in The({ e(v) : v \in {x} }) the value x
\* is computed once, however often e uses it
The(S) == CHOOSE x \in S : TRUE

Q(n, d) ==
    LET g == Gcd(IAbs(n), IAbs(d))
        s == IF d < 0 THEN -1 ELSE 1
    IN  <<(s * n) \div g, (s * d) \div g>>

I(n) == <<n, 1>>

\* sums and comparisons go through the least common denominator, products are
\* cross-reduced first: intermediate values stay inside TLC's 32-bit integers
Add(a, b) ==
    LET g == Gcd(a[2], b[2])
    IN  Q(a[1] * (b[2] \div g) + b[1] * (a[2] \div g), (a[2] \div g) * b[2])
Neg(a) == <<-a[1], a[2]>>
Sub(a, b) == Add(a, Neg(b))
Mul(a, b) ==
    LET g1 == Gcd(IAbs(a[1]), b[2])
        g2 == Gcd(IAbs(b[1]), a[2])
    IN  IF a[1] = 0 \/ b[1] = 0 THEN <<0, 1>>
        ELSE <<(a[1] \div g1) * (b[1] \div g2), (a[2] \div g2) * (b[2] \div g1)>>
\* 1/a; a division by zero stops the evaluation
Inv(a) == IF a[1] < 0 THEN <<-a[2], -a[1]>>
          ELSE IF a[1] > 0 THEN <<a[2], a[1]>>
          ELSE CHOOSE x \in {} : TRUE
Div(a, b) == Mul(a, Inv(b))
Lt(a, b) ==
    LET g == Gcd(a[2], b[2])
    IN  a[1] * (b[2] \div g) < b[1] * (a[2] \div g)
Le(a, b) == ~Lt(b, a)
Abs(a) == <<IAbs(a[1]), a[2]>>
Sign(a) == IF a[1] > 0 THEN I(1) ELSE IF a[1] < 0 THEN I(-1) ELSE I(0)
Min(a, b) == IF Lt(b, a) THEN b ELSE a
Max(a, b) == IF Lt(a, b) THEN b ELSE a
Sq(a) == Mul(a, a)

\* floor of a rational (\div rounds toward minus infinity)
Floor(a) == a[1] \div a[2]

\* Python's int(x): truncation toward zero
Trunc(a) == IF a[1] >= 0 THEN a[1] \div a[2] ELSE -((-a[1]) \div a[2])

\* Python's x % m for m > 0: the result lies in [0, m)
PyMod(a, m) == Sub(a, Mul(I(Floor(Div(a, m))), m))

\* the integer square root of n < 40000^2: first the block of 200 it lies
\* in, then the root inside the block
Isqrt(n) ==
    LET h == CHOOSE b \in 0 .. 199 : (200 * b) * (200 * b) <= n /\
                                     n < (200 * b + 200) * (200 * b + 200)
    IN  CHOOSE r \in 200 * h .. 200 * h + 199 : r * r <= n /\ n < (r + 1) * (r + 1)

\* np.sqrt on the rationals whose root is rational
Sqrt(a) ==
    The({ The({ CHOOSE r \in {<<rn, rd>>} : rn * rn = a[1] /\ rd * rd = a[2] :
                rd \in { Isqrt(a[2]) } }) :
          rn \in { Isqrt(a[1]) } })

\* np.linalg.norm of a 2-vector
Norm2(v) == Add(Sq(v[1]), Sq(v[2]))
Norm(v) == Sqrt(Norm2(v))

VAdd(u, v) == <<Add(u[1], v[1]), Add(u[2], v[2])>>
VSub(u, v) == <<Sub(u[1], v[1]), Sub(u[2], v[2])>>
VScale(k, v) == <<Mul(k, v[1]), Mul(k, v[2])>>
Dot(u, v) == Add(Mul(u[1], v[1]), Mul(u[2], v[2]))
V(x, y) == <<I(x), I(y)>>

\* the effect of the 1e-8 guard on a divisor: the quotient is 0 where the
\* divisor (and with it the numerator) is 0
DivEps(a, b) == IF b[1] = 0 THEN I(0) ELSE Div(a, b)

----------------------------------------------------------------------------
(* World configuration (tests/test_core.py: a 100 x 100 world, dt = 1).    *)

width == 100
height == 100
grid_size == 20
dt == I(1)

HazeDecay == Q(99, 100)
HazeDeposit == Q(1, 10)
SafetyMargin == Q(11, 10)
OrientationThreshold2 == Q(1, 100)   \* 0.1 squared

DefaultRadius == 10
DefaultMaxSpeed == 50
DefaultPersonalSpace == 20

\* Python's None, where an array, a tuple or a controller is expected
None == <<>>
NoController == [kind |-> "None"]

VARIABLES
    agents,       \* Environment.agents: the list of Agent objects, in list order
    obstacles,    \* Environment.obstacles: the list of obstacle dicts
    haze_grid,    \* Environment.haze_grid
    time,         \* Environment.time, counted in steps of dt
    pc,           \* position inside Simulator.step: <<phase, index of the agent>>
    last_call,    \* the last controller.decide_action call: arguments and result
    grid_at_start,\* the haze grid as it was when the current step began
    before,       \* the agent list as it was when the last method call began
    calls         \* the number of direct calls a driver script has made

vars == <<agents, obstacles, haze_grid, time, pc, last_call, grid_at_start, before, calls>>

----------------------------------------------------------------------------
(* utils/toroidal.py                                                        *)

\* a wrap that is also taken at exactly half the extent
WrapDelta_at_half(d, extent) ==
    IF Le(Div(I(extent), I(2)), Abs(d)) THEN Sub(d, Mul(Sign(d), I(extent))) ELSE d

WrapDelta(d, extent) ==
    IF Lt(Div(I(extent), I(2)), Abs(d)) THEN Sub(d, Mul(Sign(d), I(extent))) ELSE d

\* returns <<dx, dy, distance>>
toroidal_distance(p1, p2, w, h) ==
    LET dx == WrapDelta(Sub(p2[1], p1[1]), w)
        dy == WrapDelta(Sub(p2[2], p1[2]), h)
    IN  <<dx, dy, Sqrt(Add(Sq(dx), Sq(dy)))>>

----------------------------------------------------------------------------
(* core/agent.py                                                            *)

\* Agent.__init__: an agent at (x, y) heading along +x, at rest
NewAgent(x, y, ctl) ==
    [ position |-> <<x, y>>,
      velocity |-> V(0, 0),
      orientation |-> V(1, 0),      \* a vector whose atan2 is the heading angle
      radius |-> I(DefaultRadius),
      max_speed |-> I(DefaultMaxSpeed),
      personal_space |-> I(DefaultPersonalSpace),
      spm_module |-> ctl.kind # "None",
      controller |-> ctl,
      current_spm |-> None,
      current_precision |-> None,
      goal |-> None ]

\* a set_velocity that stores (vx, vy) as given
set_velocity_unclamped(a, v) == [a EXCEPT !.velocity = v]

\* Agent.set_velocity: store (vx, vy), rescaled to max_speed when faster
set_velocity(a, v) ==
    LET speed == Norm(v)
    IN  [a EXCEPT !.velocity =
            IF Lt(a.max_speed, speed)
            THEN VScale(a.max_speed, <<Div(v[1], speed), Div(v[2], speed)>>)
            ELSE v]

\* Agent.update: integrate the position, turn to the velocity when moving
AgentUpdate(a, step) ==
    [a EXCEPT !.position = VAdd(a.position, VScale(step, a.velocity)),
              !.orientation = IF Lt(OrientationThreshold2, Norm2(a.velocity))
                              THEN a.velocity ELSE a.orientation]

----------------------------------------------------------------------------
(* core/environment.py                                                      *)

GridW == width \div grid_size + 1
GridH == height \div grid_size + 1
Cells == (0 .. GridW - 1) \X (0 .. GridH - 1)

\* Environment.__init__: np.zeros(...)
EmptyGrid == [c \in Cells |-> I(0)]

\* Environment.update, "Decay Haze"
DecayGrid(g) == [c \in Cells |-> Mul(g[c], HazeDecay)]

\* a clamp iteration that leaves the velocity as it is
ClampOne_skipped(a, ob) == a

\* one iteration of the loop of _clamp_velocity_for_obstacles
ClampOne(a, ob) ==
    LET t == toroidal_distance(a.position, <<ob.x, ob.y>>, width, height)
        dx == t[1]
        dy == t[2]
        dist == t[3]
        min_dist == Add(a.radius, ob.radius)
        v_towards == DivEps(Add(Mul(a.velocity[1], dx), Mul(a.velocity[2], dy)), dist)
        nx == DivEps(dx, dist)
        ny == DivEps(dy, dist)
    IN  IF Lt(dist, Mul(min_dist, SafetyMargin)) /\ Lt(I(0), v_towards)
        THEN [a EXCEPT !.velocity = <<Sub(a.velocity[1], Mul(v_towards, nx)),
                                      Sub(a.velocity[2], Mul(v_towards, ny))>>]
        ELSE a

RECURSIVE ClampLoop(_, _, _)
ClampLoop(a, obs, k) ==
    IF k > Len(obs) THEN a ELSE ClampLoop(ClampOne(a, obs[k]), obs, k + 1)

\* an update that integrates the velocity as it was set
clamp_velocity_not_applied(a, obs) == a

\* Environment._clamp_velocity_for_obstacles
clamp_velocity_for_obstacles(a, obs) == ClampLoop(a, obs, 1)

\* boundaries that stop the agent at the wall instead of wrapping it
enforce_boundaries_clipped(a) ==
    [a EXCEPT !.position = <<Max(I(0), Min(I(width), a.position[1])),
                             Max(I(0), Min(I(height), a.position[2]))>>]

\* an update that leaves the integrated position as it is
enforce_boundaries_skipped(a) == a

\* Environment._enforce_boundaries
enforce_boundaries(a) ==
    [a EXCEPT !.position = <<PyMod(a.position[1], I(width)),
                             PyMod(a.position[2], I(height))>>]

\* a pair resolution that moves only the first agent of the pair, by the
\* whole overlap
ResolvePair_first_only(as, i, j) ==
    LET t == toroidal_distance(as[i].position, as[j].position, width, height)
        overlap == Sub(Add(as[i].radius, as[j].radius), t[3])
    IN  IF Lt(t[3], Add(as[i].radius, as[j].radius)) /\ Lt(I(0), t[3])
        THEN [as EXCEPT ![i].position =
                 <<Sub(as[i].position[1], Mul(Div(t[1], t[3]), overlap)),
                   Sub(as[i].position[2], Mul(Div(t[2], t[3]), overlap))>>]
        ELSE as

\* a pair resolution that pushes the pair apart and also stops both agents
ResolvePair_inelastic(as, i, j) ==
    LET t == toroidal_distance(as[i].position, as[j].position, width, height)
        push == Div(Sub(Add(as[i].radius, as[j].radius), t[3]), I(2))
    IN  IF Lt(t[3], Add(as[i].radius, as[j].radius)) /\ Lt(I(0), t[3])
        THEN [as EXCEPT
                 ![i].position = <<Sub(as[i].position[1], Mul(Div(t[1], t[3]), push)),
                                   Sub(as[i].position[2], Mul(Div(t[2], t[3]), push))>>,
                 ![j].position = <<Add(as[j].position[1], Mul(Div(t[1], t[3]), push)),
                                   Add(as[j].position[2], Mul(Div(t[2], t[3]), push))>>,
                 ![i].velocity = V(0, 0),
                 ![j].velocity = V(0, 0)]
        ELSE as

\* the body of the agent-agent double loop of _resolve_collisions
ResolvePair(as, i, j) ==
    LET a1 == as[i]
        a2 == as[j]
        t == toroidal_distance(a1.position, a2.position, width, height)
        dist == t[3]
        min_dist == Add(a1.radius, a2.radius)
        overlap == Sub(min_dist, dist)
        nx == Div(t[1], dist)
        ny == Div(t[2], dist)
        push == Div(overlap, I(2))
    IN  IF Lt(dist, min_dist) /\ Lt(I(0), dist)
        THEN [as EXCEPT
                 ![i].position = <<Sub(a1.position[1], Mul(nx, push)),
                                   Sub(a1.position[2], Mul(ny, push))>>,
                 ![j].position = <<Add(a2.position[1], Mul(nx, push)),
                                   Add(a2.position[2], Mul(ny, push))>>]
        ELSE as

\* an agent-agent pass that resolves nothing
PairLoop_skipped(as, i, j) == as

RECURSIVE PairLoop(_, _, _)
PairLoop(as, i, j) ==
    IF i > Len(as) THEN as
    ELSE IF j > Len(as) THEN PairLoop(as, i + 1, i + 2)
    ELSE PairLoop(ResolvePair(as, i, j), i, j + 1)

\* the body of the agent-obstacle double loop of _resolve_collisions
ResolveObstacle(a, ob) ==
    LET t == toroidal_distance(a.position, <<ob.x, ob.y>>, width, height)
        dist == t[3]
        min_dist == Add(a.radius, ob.radius)
        overlap == Sub(min_dist, dist)
        nx == Div(t[1], dist)
        ny == Div(t[2], dist)
        moved == <<Add(a.position[1], Mul(nx, overlap)),
                   Add(a.position[2], Mul(ny, overlap))>>
        v_n == Add(Mul(a.velocity[1], nx), Mul(a.velocity[2], ny))
    IN  IF Lt(dist, min_dist) /\ Lt(I(0), dist)
        THEN [a EXCEPT !.position = moved,
                       !.velocity = IF Lt(v_n, I(0))
                                    THEN <<Sub(a.velocity[1], Mul(v_n, nx)),
                                           Sub(a.velocity[2], Mul(v_n, ny))>>
                                    ELSE a.velocity]
        ELSE a

RECURSIVE ObstacleLoop(_, _, _)
ObstacleLoop(a, obs, k) ==
    IF k > Len(obs) THEN a ELSE ObstacleLoop(ResolveObstacle(a, obs[k]), obs, k + 1)

\* Environment._resolve_collisions: agent pairs first, then every agent
\* against every obstacle
resolve_collisions(as, obs) ==
    LET pushed == PairLoop(as, 1, 2)
    IN  [i \in 1 .. Len(as) |-> ObstacleLoop(pushed[i], obs, 1)]

\* Environment.update, steps 1 and 2: clamp every agent, then integrate and wrap
ClampAll(as, obs) == [i \in 1 .. Len(as) |-> clamp_velocity_for_obstacles(as[i], obs)]
IntegrateAll(as) == [i \in 1 .. Len(as) |-> enforce_boundaries(AgentUpdate(as[i], dt))]

\* the agent list at the end of Environment.update
UpdatedAgents(as, obs) == resolve_collisions(IntegrateAll(ClampAll(as, obs)), obs)

----------------------------------------------------------------------------
(* Matrices are sequences of rows; Python's index k is position k + 1.     *)

Rows(m) == Len(m)
Cols(m) == Len(m[1])
ZeroMatrix(nr, nt) == [r \in 1 .. nr |-> [t \in 1 .. nt |-> I(0)]]

RECURSIVE SumRange(_, _, _)
SumRange(s, lo, hi) ==
    IF lo > hi THEN I(0)
    ELSE IF lo = hi THEN s[lo]
    ELSE Add(SumRange(s, lo, (lo + hi) \div 2), SumRange(s, ((lo + hi) \div 2) + 1, hi))

SumSeq(s, k) == SumRange(s, k, Len(s))

\* np.sum of a matrix
MatSum(m) == SumSeq([r \in 1 .. Rows(m) |-> SumSeq(m[r], 1)], 1)

----------------------------------------------------------------------------
(* Directions.  cos and sin of the angles the controllers use are replaced  *)
(* by the nearest rational points of the unit circle with denominators 13,  *)
(* 65 and 169 (the error is below 0.01 rad); multiples of 90 degrees are    *)
(* exact.  Every tabled direction has norm exactly 1.                       *)

\* the direction at angle q * 90 degrees + the first-quadrant direction d
Quadrant(d, q) ==
    CASE q % 4 = 0 -> d
      [] q % 4 = 1 -> <<Neg(d[2]), d[1]>>
      [] q % 4 = 2 -> <<Neg(d[1]), Neg(d[2])>>
      [] q % 4 = 3 -> <<d[2], Neg(d[1])>>

Dir0 == <<I(1), I(0)>>
Dir22 == <<Q(12, 13), Q(5, 13)>>        \* 22.5 degrees
Dir30 == <<Q(56, 65), Q(33, 65)>>       \* 30 degrees
Dir45 == <<Q(119, 169), Q(120, 169)>>   \* 45 degrees
Dir60 == <<Q(33, 65), Q(56, 65)>>       \* 60 degrees
Dir67 == <<Q(5, 13), Q(12, 13)>>        \* 67.5 degrees

\* <<cos, sin>> of i / 16 of a turn
Heading16(i) ==
    Quadrant(CASE i % 4 = 0 -> Dir0 [] i % 4 = 1 -> Dir22
               [] i % 4 = 2 -> Dir45 [] i % 4 = 3 -> Dir67, i \div 4)

\* <<cos, sin>> of the centre of angular bin k of nt bins:
\* -pi + (k + 1/2) * 2 pi / nt, for nt = 2, 3, 4 and 6
BinDir(nt, k) ==
    CASE nt = 2 -> Quadrant(Dir0, 2 * k + 3)
      [] nt = 3 -> (CASE k = 0 -> Quadrant(Dir60, 2)     \* -120 degrees
                      [] k = 1 -> Dir0                   \*    0
                      [] k = 2 -> Quadrant(Dir30, 1))    \*  120
      [] nt = 4 -> Quadrant(Dir45, k + 2)
      [] nt = 6 -> (CASE k = 0 -> Quadrant(Dir30, 2)     \* -150 degrees
                      [] k = 1 -> Quadrant(Dir0, 3)      \*  -90
                      [] k = 2 -> Quadrant(Dir60, 3)     \*  -30
                      [] k = 3 -> Dir30                  \*   30
                      [] k = 4 -> Quadrant(Dir0, 1)      \*   90
                      [] k = 5 -> Quadrant(Dir60, 1))    \*  150

----------------------------------------------------------------------------
(* control/eph.py and control/eph_gradient.py: the state both controllers  *)
(* keep, and the haze pipeline they share line for line.                    *)

SpeedThreshold == I(5)
StuckThreshold == 50
HazeIncrease == Q(5, 100)
HazeDecrease == Q(1, 100)

\* EPHController.__init__
NewEPHController ==
    [ kind |-> "EPHController", haze_self |-> I(0), stuck_counter |-> 0 ]

\* the default of the constructor argument n_iterations
n_iterations == 5

\* GradientEPHController.__init__; the random heading is one of the 16
\* tabled headings
NewGradientEPHController(angle) ==
    [ kind |-> "GradientEPHController", haze_self |-> I(0), stuck_counter |-> 0,
      random_target_angle |-> angle, random_target_timer |-> 0,
      n_iterations |-> n_iterations ]

\* a self-haze update whose threshold test is >= instead of >
UpdateSelfHaze_from_threshold(ctl, speed) ==
    LET counter == IF Lt(speed, I(5))
                   THEN ctl.stuck_counter + 1
                   ELSE IF ctl.stuck_counter - 1 > 0 THEN ctl.stuck_counter - 1 ELSE 0
    IN  [ctl EXCEPT !.stuck_counter = counter,
                    !.haze_self = IF counter >= 50
                                  THEN Min(I(1), Add(ctl.haze_self, Q(5, 100)))
                                  ELSE Max(I(0), Sub(ctl.haze_self, Q(1, 100)))]

\* a self-haze update whose decay has no floor at 0.0
UpdateSelfHaze_unfloored(ctl, speed) ==
    LET counter == IF Lt(speed, I(5))
                   THEN ctl.stuck_counter + 1
                   ELSE IF ctl.stuck_counter - 1 > 0 THEN ctl.stuck_counter - 1 ELSE 0
    IN  [ctl EXCEPT !.stuck_counter = counter,
                    !.haze_self = IF counter > 50
                                  THEN Min(I(1), Add(ctl.haze_self, Q(5, 100)))
                                  ELSE Sub(ctl.haze_self, Q(1, 100))]

\* decide_action, "1. Update Self-Hazing"
\* a self-haze update that forgets the slow calls at the first fast one
UpdateSelfHaze_reset_when_fast(ctl, speed) ==
    LET counter == IF Lt(speed, SpeedThreshold) THEN ctl.stuck_counter + 1 ELSE 0
    IN  [ctl EXCEPT !.stuck_counter = counter,
                    !.haze_self = IF counter > StuckThreshold
                                  THEN Min(I(1), Add(ctl.haze_self, HazeIncrease))
                                  ELSE Max(I(0), Sub(ctl.haze_self, HazeDecrease))]

UpdateSelfHaze(ctl, speed) ==
    LET counter == IF Lt(speed, SpeedThreshold)
                   THEN ctl.stuck_counter + 1
                   ELSE IF ctl.stuck_counter - 1 > 0 THEN ctl.stuck_counter - 1 ELSE 0
    IN  [ctl EXCEPT !.stuck_counter = counter,
                    !.haze_self = IF counter > StuckThreshold
                                  THEN Min(I(1), Add(ctl.haze_self, HazeIncrease))
                                  ELSE Max(I(0), Sub(ctl.haze_self, HazeDecrease))]

\* the columns range(start, end + 1), each taken modulo Ntheta
FrontColumns(nt) ==
    LET center_idx == nt \div 2
        w == nt \div 6
    IN  { t % nt : t \in (center_idx - w) .. (center_idx + w) }

\* a loop over range(start, end): the last column of the sector is left out
Visits_half_open(nt, c) ==
    Cardinality({ t \in (nt \div 2 - nt \div 6) .. (nt \div 2 + nt \div 6 - 1) : t % nt = c })

\* how often column c is visited by the loop over range(start, end + 1)
Visits(nt, c) ==
    LET center_idx == nt \div 2
        w == nt \div 6
    IN  Cardinality({ t \in (center_idx - w) .. (center_idx + w) : t % nt = c })

RECURSIVE Pow(_, _)
Pow(x, n) == IF n = 0 THEN I(1) ELSE Mul(x, Pow(x, n - 1))

\* the content of modulated_precision after the self-haze loop and the
\* environmental-haze scaling
HazeModulated(haze_self, precision_matrix, env_haze_value) ==
    LET nt == Cols(precision_matrix)
        attenuation == Sq(Sub(I(1), haze_self))
        env == Sq(Sub(I(1), env_haze_value))
    IN  [r \in 1 .. Rows(precision_matrix) |->
           [t \in 1 .. nt |->
              Mul(IF Lt(I(0), haze_self)
                  THEN Mul(precision_matrix[r][t], Pow(attenuation, Visits(nt, t - 1)))
                  ELSE precision_matrix[r][t],
                  env)]]

\* the caller's array had the modulation been written into it
InPlaceModulated(haze_self, precision_matrix, env_haze_value) ==
    HazeModulated(haze_self, precision_matrix, env_haze_value)

\* modulated_precision = precision_matrix.copy(): the in-place updates go to
\* the copy, and the caller's array holds after the call what it held before
CallerPrecisionAfter(haze_self, precision_matrix, env_haze_value) == precision_matrix

----------------------------------------------------------------------------
(* control/eph.py: the sampling controller.                                 *)

n_samples == 16

\* decide_action, "3. Action Selection": the candidate list, in the order
\* the loop visits it
Candidates(a) ==
    [i \in 1 .. n_samples + 2 |->
        IF i <= n_samples THEN VScale(a.max_speed, Heading16(i - 1))
        ELSE IF i = n_samples + 1 THEN V(0, 0)
        ELSE a.velocity]

\* the action rotated by -agent.orientation into the frame of the SPM
EgoFrame(a, action) ==
    LET len == Norm(a.orientation)
        c == Div(a.orientation[1], len)           \* cos(-theta)
        sn == Neg(Div(a.orientation[2], len))     \* sin(-theta)
    IN  << Sub(Mul(action[1], c), Mul(action[2], sn)),
           Add(Mul(action[1], sn), Mul(action[2], c)) >>

\* v_rads: the action's radial component along the centre of each angular bin
RadialComponents(a, action, nt) ==
    The({ [t \in 1 .. nt |-> Add(Mul(e[1], BinDir(nt, t - 1)[1]),
                                 Mul(e[2], BinDir(nt, t - 1)[2]))] :
          e \in { EgoFrame(a, action) } })

\* a risk term that sees no occupancy
Risk_without_occupancy(a, action, spm_tensor, precision) == I(0)

\* np.sum(occupancy * precision * np.maximum(0, v_rads_grid))
Risk(a, action, spm_tensor, precision) ==
    LET occupancy == spm_tensor[1]
        nt == Cols(occupancy)
    IN  The({ MatSum([r \in 1 .. Rows(occupancy) |->
                        [t \in 1 .. nt |->
                           Mul(Mul(occupancy[r][t], precision[r][t]), approach[t])]]) :
              approach \in { [t \in 1 .. nt |-> Max(I(0), v_rads[t])] :
                             v_rads \in { RadialComponents(a, action, nt) } } })

\* EPHController._evaluate_action
evaluate_action(a, action, spm_tensor, precision, preferred_velocity) ==
    IF preferred_velocity # None
    THEN Add(Risk(a, action, spm_tensor, precision),
             Mul(Q(1, 2), Norm2(VSub(action, preferred_velocity))))
    ELSE Sub(Risk(a, action, spm_tensor, precision),
             Mul(Q(1, 10), Norm(action)))

\* a selection loop that replaces the best action on equal cost as well
RECURSIVE SelectLoop_last_found(_, _, _, _, _)
SelectLoop_last_found(cands, costs, k, best_action, min_cost) ==
    IF k > Len(cands) THEN best_action
    ELSE IF min_cost = None \/ Le(costs[k], min_cost)
         THEN SelectLoop_last_found(cands, costs, k + 1, cands[k], costs[k])
         ELSE SelectLoop_last_found(cands, costs, k + 1, best_action, min_cost)

\* the selection loop: best_action after candidates k .. n, given the best
\* so far (min_cost = None stands for float('inf'))
RECURSIVE SelectLoop(_, _, _, _, _)
SelectLoop(cands, costs, k, best_action, min_cost) ==
    IF k > Len(cands) THEN best_action
    ELSE IF min_cost = None \/ Lt(costs[k], min_cost)
         THEN SelectLoop(cands, costs, k + 1, cands[k], costs[k])
         ELSE SelectLoop(cands, costs, k + 1, best_action, min_cost)

\* the action the sampling controller returns for modulated precision mp
SamplingAction(a, spm_tensor, mp, preferred_velocity) ==
    The({ The({ SelectLoop(cands, costs, 1, V(0, 0), None) :
                costs \in { [k \in 1 .. Len(cands) |->
                               The({ c : c \in { evaluate_action(a, cands[k], spm_tensor, mp,
                                                                 preferred_velocity) } })] } }) :
          cands \in { Candidates(a) } })

\* a decide_action that also stores the chosen action as the agent's velocity
EPH_decide_action_sets_velocity(a, spm_tensor, precision_matrix, env_haze_value, preferred_velocity) ==
    The({ The({ [ action |-> best_action,
                  agent |-> [a EXCEPT !.controller = ctl, !.velocity = best_action],
                  precision_matrix |-> precision_matrix ] :
                best_action \in { SamplingAction(a, spm_tensor,
                                     HazeModulated(ctl.haze_self, precision_matrix, env_haze_value),
                                     preferred_velocity) } }) :
          ctl \in { UpdateSelfHaze(a.controller, Norm(a.velocity)) } })

\* EPHController.decide_action for agent record a (a.controller is the
\* controller): the returned action, the agent after the call, and the
\* content of the caller's precision array after the call
EPH_decide_action(a, spm_tensor, precision_matrix, env_haze_value, preferred_velocity) ==
    The({ The({ [ action |-> SamplingAction(a, spm_tensor, mp, preferred_velocity),
                  agent |-> [a EXCEPT !.controller = ctl],
                  precision_matrix |->
                      CallerPrecisionAfter(ctl.haze_self, precision_matrix, env_haze_value) ] :
                mp \in { HazeModulated(ctl.haze_self, precision_matrix, env_haze_value) } }) :
          ctl \in { UpdateSelfHaze(a.controller, Norm(a.velocity)) } })

----------------------------------------------------------------------------
(* control/eph_gradient.py: the gradient controller.  Its state updates    *)
(* and the initialisation of the descent are modelled as written; the       *)
(* descent itself (automatic differentiation in float32) is represented by  *)
(* its possible results, see DescentOutcomes.                               *)

random_target_duration == 50

\* the headings np.random.uniform(0, 2 * np.pi) is taken to return, in
\* sixteenths of a turn
DrawnHeadings == { 3, 10 }

\* np.sum(spm_tensor[0, :2, :])
CloseOccupancy(spm_tensor) ==
    LET occupancy == spm_tensor[1]
        k == IF Rows(occupancy) < 2 THEN Rows(occupancy) ELSE 2
    IN  MatSum([r \in 1 .. k |-> occupancy[r]])

\* an initialisation that starts the descent at the current velocity whether
\* or not a preferred velocity is supplied
GradientInit_from_velocity(a, ctl, spm_tensor, preferred_velocity, drawn) ==
    IF preferred_velocity # None
    THEN [ controller |-> ctl, action |-> a.velocity, pv |-> preferred_velocity ]
    ELSE IF Lt(Q(1, 2), CloseOccupancy(spm_tensor))
    THEN [ controller |-> ctl, action |-> a.velocity, pv |-> V(0, 0) ]
    ELSE [ controller |-> [ctl EXCEPT !.random_target_timer = ctl.random_target_timer + 1],
           action |-> a.velocity,
           pv |-> VScale(Mul(a.max_speed, Q(1, 2)), Heading16(ctl.random_target_angle)) ]

\* decide_action, "3. Initialize action": the controller after the step,
\* the start of the descent and the target velocity pv_jax; drawn is the
\* heading np.random.uniform would return
GradientInit(a, ctl, spm_tensor, preferred_velocity, drawn) ==
    IF preferred_velocity # None
    THEN [ controller |-> ctl, action |-> preferred_velocity, pv |-> preferred_velocity ]
    ELSE IF Lt(Q(1, 2), CloseOccupancy(spm_tensor))
    THEN [ controller |-> ctl, action |-> a.velocity, pv |-> V(0, 0) ]
    ELSE LET timer == ctl.random_target_timer + 1
             redraw == timer > random_target_duration
             angle == IF redraw THEN drawn ELSE ctl.random_target_angle
         IN  [ controller |-> [ctl EXCEPT !.random_target_timer = IF redraw THEN 0 ELSE timer,
                                          !.random_target_angle = angle],
               action |-> a.velocity,
               pv |-> VScale(Mul(a.max_speed, Q(1, 2)), Heading16(angle)) ]

\* GradientEPHController._apply_haze: the array it returns
apply_haze(haze_self, precision_matrix, env_haze_value) ==
    HazeModulated(haze_self, precision_matrix, env_haze_value)

\* the actions the descent loop can end with, started at action0: with at
\* least one iteration the last statement of the loop rescales the action to
\* max_speed, so the result is some velocity of norm at most max_speed
DescentOutcomes(a, action0) ==
    IF a.controller.n_iterations = 0 THEN {action0}
    ELSE { V(0, 0), <<a.max_speed, I(0)>>, <<Neg(a.max_speed), I(0)>>,
           <<Mul(a.max_speed, Q(1, 2)), I(0)>> }

\* the calls GradientEPHController.decide_action can make of one argument
\* list: records as for EPH_decide_action
Gradient_decide_action(a, spm_tensor, precision_matrix, env_haze_value, preferred_velocity) ==
    UNION { UNION { { [ action |-> act,
                        agent |-> [a EXCEPT !.controller = init.controller],
                        precision_matrix |->
                            CallerPrecisionAfter(ctl.haze_self, precision_matrix,
                                                 env_haze_value) ] :
                      act \in DescentOutcomes(a, init.action) } :
                    init \in { GradientInit(a, ctl, spm_tensor, preferred_velocity, drawn) :
                               drawn \in DrawnHeadings } } :
            ctl \in { UpdateSelfHaze(a.controller, Norm(a.velocity)) } }

----------------------------------------------------------------------------
(* control/eph_gradient.py: the cost gradient and the descent loop carried  *)
(* out.  jax.grad differentiates _cost_function as written: the derivative  *)
(* of jnp.maximum(0, x) is 1 for x > 0, 0 for x < 0 and 1/2 at x = 0, the   *)
(* being-inside penalty does not depend on the action, and the derivative   *)
(* of sqrt(vx^2 + vy^2 + 1e-8) is action / |action| (0 at the origin).      *)
(* The unit vector is taken only of actions whose norm is rational.         *)

learning_rate == Q(1, 2)
GradientClip == I(10)
lambda_weight == Q(1, 2)

\* d/dx jnp.maximum(0, x)
RampSlope(x) == IF Lt(I(0), x) THEN I(1) ELSE IF x = I(0) THEN Q(1, 2) ELSE I(0)

\* the gradient of F_percept: the sum over the bins of
\* occupancy * precision * slope(v_rad) * d v_rad / d action
RiskGradient(a, action, spm_tensor, precision) ==
    LET occupancy == spm_tensor[1]
        nt == Cols(occupancy)
        len == Norm(a.orientation)
        c == Div(a.orientation[1], len)
        sn == Div(a.orientation[2], len)
    IN  The({ << SumSeq([t \in 1 .. nt |->
                           Mul(column[t], Sub(Mul(c, BinDir(nt, t - 1)[1]),
                                              Mul(sn, BinDir(nt, t - 1)[2])))], 1),
                 SumSeq([t \in 1 .. nt |->
                           Mul(column[t], Add(Mul(sn, BinDir(nt, t - 1)[1]),
                                              Mul(c, BinDir(nt, t - 1)[2])))], 1) >> :
              column \in { [t \in 1 .. nt |->
                              Mul(RampSlope(v_rads[t]),
                                  SumSeq([r \in 1 .. Rows(occupancy) |->
                                            Mul(occupancy[r][t], precision[r][t])], 1))] :
                           v_rads \in { RadialComponents(a, action, nt) } } })

\* the gradient of M_meta: goal seeking when |preferred_vel| > 1, else the
\* speed reward
MetaGradient(action, preferred_vel) ==
    IF Lt(I(1), Norm2(preferred_vel))
    THEN VScale(I(2), VSub(action, preferred_vel))
    ELSE IF action = V(0, 0) THEN V(0, 0)
    ELSE VScale(Div(Q(-1, 10), Norm(action)), action)

\* a cost gradient without the perceptual term
cost_gradient_meta_only(a, action, spm_tensor, precision, preferred_vel) ==
    VScale(Q(1, 2), MetaGradient(action, preferred_vel))

\* jax.grad(_cost_function, argnums=0) for the agent's orientation
cost_gradient(a, action, spm_tensor, precision, preferred_vel) ==
    VAdd(RiskGradient(a, action, spm_tensor, precision),
         VScale(lambda_weight, MetaGradient(action, preferred_vel)))

\* jnp.clip(x, -10.0, 10.0)
Clip(x) == Max(Neg(GradientClip), Min(GradientClip, x))

\* an iteration without the rescale to max_speed
DescentStep_unscaled(a, action, spm_tensor, precision, pv) ==
    The({ VSub(action, VScale(learning_rate, <<Clip(grad[1]), Clip(grad[2])>>)) :
          grad \in { cost_gradient(a, action, spm_tensor, precision, pv) } })

\* decide_action, "4. Gradient descent": one iteration
DescentStep(a, action, spm_tensor, precision, pv) ==
    The({ The({ IF Lt(Sq(a.max_speed), Norm2(stepped))
                THEN VScale(Div(a.max_speed, Norm(stepped)), stepped)
                ELSE stepped :
                stepped \in { VSub(action, VScale(learning_rate,
                                                  <<Clip(grad[1]), Clip(grad[2])>>)) } }) :
          grad \in { cost_gradient(a, action, spm_tensor, precision, pv) } })

RECURSIVE DescentLoop(_, _, _, _, _, _)
DescentLoop(a, action, spm_tensor, precision, pv, k) ==
    IF k > a.controller.n_iterations THEN action
    ELSE The({ DescentLoop(a, next, spm_tensor, precision, pv, k + 1) :
               next \in { DescentStep(a, action, spm_tensor, precision, pv) } })

\* GradientEPHController.decide_action with the descent carried out: a
\* record as for EPH_decide_action (no heading is drawn: the timer of a new
\* controller is below random_target_duration)
Gradient_decide_action_descent(a, spm_tensor, precision_matrix, env_haze_value, preferred_velocity) ==
    The({ The({ [ action |-> DescentLoop(a, init.action, spm_tensor, mp, init.pv, 1),
                  agent |-> [a EXCEPT !.controller = init.controller],
                  precision_matrix |->
                      CallerPrecisionAfter(ctl.haze_self, precision_matrix, env_haze_value) ] :
                mp \in { apply_haze(ctl.haze_self, precision_matrix, env_haze_value) },
                init \in { GradientInit(a, ctl, spm_tensor, preferred_velocity,
                                        ctl.random_target_angle) } }) :
          ctl \in { UpdateSelfHaze(a.controller, Norm(a.velocity)) } })

----------------------------------------------------------------------------
(* perception/spm.py, as far as the simulator needs it: the encoder's       *)
(* configuration and the shape of what it returns.  The tensor of an agent  *)
(* with no other entity in the world is all zeros; otherwise the simulator  *)
(* specification lets sense() return any of SpmSamples.                     *)

Nr == 3
Ntheta == 2
d_max == 300

ZeroSpm(nr, nt) == << ZeroMatrix(nr, nt), ZeroMatrix(nr, nt), ZeroMatrix(nr, nt) >>

\* a tensor with occupancy weight w in bin (r, t) and no relative velocity
SpmAt(nr, nt, r, t, w) ==
    << [i \in 1 .. nr |-> [j \in 1 .. nt |->
           IF i = r + 1 /\ j = t + 1 THEN w ELSE I(0)]],
       ZeroMatrix(nr, nt), ZeroMatrix(nr, nt) >>

SpmSamples == { SpmAt(Nr, Ntheta, 0, Ntheta \div 2, I(1)) }

\* sigmoid((personal_space - dist) / tau) for radial bin r with the default
\* personal_space 20, d_max 300 and tau 5, to one decimal: bin 0 stands for
\* distance 0, bin 1 for the personal space itself, the others lie beyond
PrecisionRow(r) == IF r = 0 THEN I(1) ELSE IF r = 1 THEN Q(1, 2) ELSE I(0)

\* SaliencyPolarMap.get_precision_matrix
get_precision_matrix(a) == [r \in 1 .. Nr |-> [t \in 1 .. Ntheta |-> PrecisionRow(r - 1)]]

\* SaliencyPolarMap.compute_spm: the tensors it may return for agent i
compute_spm(as, obs, i) ==
    IF \E j \in 1 .. Len(as) : j # i /\ ~Lt(I(d_max),
             toroidal_distance(as[i].position, as[j].position, width, height)[3])
    THEN SpmSamples
    ELSE IF \E k \in 1 .. Len(obs) : ~Lt(I(d_max),
             toroidal_distance(as[i].position, <<obs[k].x, obs[k].y>>, width, height)[3])
    THEN SpmSamples
    ELSE {ZeroSpm(Nr, Ntheta)}

----------------------------------------------------------------------------
(* perception/spm.py in full.  An encoder is the record of its constructor  *)
(* arguments [Nr, Ntheta, d_max, base], where base stands for the two       *)
(* sigmas: the kernel exp(-dr^2 / 2 sigma_r^2 - dt^2 / 2 sigma_theta^2) is  *)
(* base^-(dr^2 + dt^2) for sigma_r = sigma_theta = 1 / sqrt(2 ln base);     *)
(* base 4 is sigma 0.60 (the default is 0.5), base 2 is sigma 0.85.         *)
(* Angles are rational fractions of a full turn (pi is 1/2); arctan2 is     *)
(* taken of axis-parallel vectors only.  Logarithms are to base 2, exact at *)
(* the powers of 2 and interpolated linearly in between; only their ratio   *)
(* enters the radial mapping.  The 1e-6 added to the divisor is dropped.    *)

SaliencyPolarMap(nr, nt, dmax, base) ==
    [ Nr |-> nr, Ntheta |-> nt, d_max |-> dmax, base |-> base ]

HalfTurn == Q(1, 2)

\* np.arctan2(dy, dx) of an axis-parallel vector, in turns
Arctan2(dy, dx) ==
    CASE dy[1] = 0 /\ dx[1] >= 0 -> I(0)
      [] dy[1] = 0 /\ dx[1] < 0  -> HalfTurn
      [] dx[1] = 0 /\ dy[1] > 0  -> Q(1, 4)
      [] dx[1] = 0 /\ dy[1] < 0  -> Q(-1, 4)

\* <<np.cos(angle), np.sin(angle)>> of a multiple of a quarter turn
CosSin(angle) == Quadrant(Dir0, Floor(Mul(PyMod(angle, I(1)), I(4))))

\* utils/math_utils.py, normalize_angle: (angle + pi) % (2 pi) - pi
normalize_angle(angle) == Sub(PyMod(Add(angle, HalfTurn), I(1)), HalfTurn)

\* int(np.round(x)): halves go to the even neighbour
Round(x) ==
    LET f == Floor(x)
        frac == Sub(x, I(f))
    IN  IF Lt(frac, Q(1, 2)) THEN f
        ELSE IF Lt(Q(1, 2), frac) THEN f + 1
        ELSE IF f % 2 = 0 THEN f ELSE f + 1

\* log2 of x >= 1
RECURSIVE Log2(_)
Log2(x) == IF Lt(x, I(2)) THEN Sub(x, I(1)) ELSE Add(I(1), Log2(Div(x, I(2))))

\* a radial mapping without the intimate zone: every distance goes through
\* the logarithm
RadialCentre_log_only(m, dist, ps) ==
    IF Le(m.d_max, ps) THEN None
    ELSE Add(I(1), Mul(Div(I(m.Nr - 2), Log2(Div(m.d_max, ps))), Log2(Div(dist, ps))))

\* _add_to_tensor, "1. Radial Mapping": r_center, or None where the method
\* returns without writing
RadialCentre(m, dist, ps) ==
    IF Le(dist, ps) THEN I(0)
    ELSE IF Le(m.d_max, ps) THEN None
    ELSE LET scale == Div(I(m.Nr - 2), Log2(Div(m.d_max, ps)))
         IN  Add(I(1), Mul(scale, Log2(Div(dist, ps))))

\* _add_to_tensor, "2. Angular Mapping": theta_center
AngularCentre(m, angle) == Mul(Add(angle, HalfTurn), I(m.Ntheta))

\* base^-q for q >= 0: exact at the integers, linear in between
Kernel(base, q) ==
    LET n == Floor(q)
    IN  Mul(Q(1, base ^ n), Sub(I(1), Mul(Sub(q, I(n)), Q(base - 1, base))))

\* the weight of bin (r, t_wrapped) for an entity at r_center, angle
KernelWeight(m, r, t_wrapped, r_center, angle) ==
    LET dr == Sub(I(r), r_center)
        bin_angle == Sub(Q(t_wrapped, m.Ntheta), HalfTurn)
        diff_angle == normalize_angle(Sub(bin_angle, angle))
        dt_eff == Mul(diff_angle, I(m.Ntheta))
    IN  Kernel(m.base, Add(Sq(dr), Sq(dt_eff)))

\* the index pairs <<r, t>> the double loop of _add_to_tensor visits, in
\* loop order (k_size = 2)
KernelIndices(r_idx_base, t_idx_base) ==
    [k \in 1 .. 25 |-> << r_idx_base - 2 + ((k - 1) \div 5),
                          t_idx_base - 2 + ((k - 1) % 5) >>]

\* a kernel loop that writes wherever it visits: no range test on r, no
\* wrap of t
KernelWrites_unchecked(m, r_center, angle) ==
    LET idx == KernelIndices(Round(r_center), Round(AngularCentre(m, angle)))
    IN  [k \in 1 .. 25 |-> [ r |-> idx[k][1], t |-> idx[k][2], weight |-> I(1) ]]

\* the writes of _add_to_tensor, "3. Gaussian Splatting": the records
\* [r, t, weight] of the statements tensor[0, r, t_wrapped] += weight,
\* in loop order
KernelWrites(m, r_center, angle) ==
    LET idx == KernelIndices(Round(r_center), Round(AngularCentre(m, angle)))
        kept == SelectSeq(idx, LAMBDA p : 0 <= p[1] /\ p[1] < m.Nr)
    IN  [k \in 1 .. Len(kept) |->
           [ r |-> kept[k][1],
             t |-> kept[k][2] % m.Ntheta,
             weight |-> KernelWeight(m, kept[k][1], kept[k][2] % m.Ntheta, r_center, angle) ]]

\* an _add_to_tensor without the return for d_max <= personal_space: the
\* entity goes to the outermost radial centre
add_to_tensor_writes_unguarded(m, dist, angle, a) ==
    LET rc == RadialCentre(m, dist, a.personal_space)
    IN  KernelWrites(m, IF rc = None THEN I(m.Nr - 1) ELSE rc, angle)

\* the writes one call of _add_to_tensor makes
add_to_tensor_writes(m, dist, angle, a) ==
    LET rc == RadialCentre(m, dist, a.personal_space)
    IN  IF rc = None THEN <<>> ELSE KernelWrites(m, rc, angle)

\* numpy's element tensor[c, r, t] += x for one write w; a negative index
\* counts from the end, an index past the end is an IndexError: the tensor
\* is left alone and the writes after it are not made
ApplyWrite(st, w, v_r, v_t) ==
    LET nr == Len(st.tensor[1])
        nt == Len(st.tensor[1][1])
        r == IF w.r < 0 THEN w.r + nr + 1 ELSE w.r + 1
        t == IF w.t < 0 THEN w.t + nt + 1 ELSE w.t + 1
    IN  IF st.failed THEN st
        ELSE IF r \in 1 .. nr /\ t \in 1 .. nt
        THEN [st EXCEPT !.tensor[1][r][t] = Add(@, w.weight),
                        !.tensor[2][r][t] = Add(@, Mul(w.weight, v_r)),
                        !.tensor[3][r][t] = Add(@, Mul(w.weight, v_t))]
        ELSE [st EXCEPT !.failed = TRUE]

\* the writes lo .. hi in order, the first half before the second
RECURSIVE ApplyRange(_, _, _, _, _, _)
ApplyRange(st, writes, lo, hi, v_r, v_t) ==
    IF lo > hi THEN st
    ELSE IF lo = hi THEN ApplyWrite(st, writes[lo], v_r, v_t)
    ELSE The({ ApplyRange(half, writes, ((lo + hi) \div 2) + 1, hi, v_r, v_t) :
               half \in { ApplyRange(st, writes, lo, (lo + hi) \div 2, v_r, v_t) } })

\* the tensor after the writes k .. Len(writes)
ApplyWrites(tensor, writes, k, v_r, v_t) ==
    The({ ApplyRange([tensor |-> tensor, failed |-> FALSE], ws, k, Len(ws), v_r, v_t).tensor :
          ws \in { writes } })

\* SaliencyPolarMap._add_to_tensor
add_to_tensor(m, tensor, dist, angle, v_r, v_t, a) ==
    ApplyWrites(tensor, add_to_tensor_writes(m, dist, angle, a), 1, v_r, v_t)

\* Environment.get_entities: the agents, then the obstacles
get_entities(as, obs) ==
    [k \in 1 .. Len(as) + Len(obs) |->
        IF k <= Len(as) THEN [ agent |-> k, position |-> as[k].position,
                               velocity |-> as[k].velocity ]
        ELSE [ agent |-> 0, position |-> <<obs[k - Len(as)].x, obs[k - Len(as)].y>>,
               velocity |-> None ]]

\* the body of the loop of compute_spm for one entity: None where the
\* entity is skipped before _add_to_tensor, else the arguments of the call
EntityView(m, as, i, e) ==
    LET t == toroidal_distance(as[i].position, e.position, width, height)
        angle == Arctan2(t[2], t[1])
        rel_angle == normalize_angle(
                        Sub(angle, Arctan2(as[i].orientation[2], as[i].orientation[1])))
        rel == IF e.velocity # None THEN VSub(e.velocity, as[i].velocity)
               ELSE <<Neg(as[i].velocity[1]), Neg(as[i].velocity[2])>>
        er == CosSin(angle)
        et == <<Neg(er[2]), er[1]>>
    IN  IF e.agent = i \/ Lt(m.d_max, t[3]) THEN None
        ELSE [ dist |-> t[3], angle |-> rel_angle,
               v_radial |-> Dot(rel, er), v_tangential |-> Dot(rel, et) ]

RECURSIVE SpmLoop(_, _, _, _, _, _)
SpmLoop(m, as, i, entities, k, tensor) ==
    IF k > Len(entities) THEN tensor
    ELSE The({ SpmLoop(m, as, i, entities, k + 1, next) :
               next \in { IF v = None THEN tensor
                          ELSE add_to_tensor(m, tensor, v.dist, v.angle,
                                             v.v_radial, v.v_tangential, as[i]) :
                          v \in { EntityView(m, as, i, entities[k]) } } })

\* the writes of all the _add_to_tensor calls of one compute_spm, in order
RECURSIVE SpmWrites(_, _, _, _, _)
SpmWrites(m, as, i, entities, k) ==
    IF k > Len(entities) THEN <<>>
    ELSE LET v == EntityView(m, as, i, entities[k])
         IN  (IF v = None THEN <<>> ELSE add_to_tensor_writes(m, v.dist, v.angle, as[i]))
             \o SpmWrites(m, as, i, entities, k + 1)

\* SaliencyPolarMap.compute_spm of encoder m for agent i
SPM_compute_spm(m, as, obs, i) ==
    SpmLoop(m, as, i, get_entities(as, obs), 1, ZeroSpm(m.Nr, m.Ntheta))

\* SaliencyPolarMap.get_precision_matrix of encoder m
SPM_get_precision_matrix(m, a) ==
    [r \in 1 .. m.Nr |-> [t \in 1 .. m.Ntheta |-> PrecisionRow(r - 1)]]

----------------------------------------------------------------------------
(* core/agent.py: sense and decide_action; core/simulator.py.               *)

\* Agent.sense
AgentSense(a, spm) ==
    IF a.spm_module
    THEN [a EXCEPT !.current_spm = spm, !.current_precision = get_precision_matrix(a)]
    ELSE a

\* grid_x, grid_y of Agent.decide_action
GridIndex(pos) ==
    LET gx == Trunc(Div(pos[1], I(grid_size)))
        gy == Trunc(Div(pos[2], I(grid_size)))
        cx == IF gx < GridW - 1 THEN gx ELSE GridW - 1
        cy == IF gy < GridH - 1 THEN gy ELSE GridH - 1
    IN  << IF cx > 0 THEN cx ELSE 0, IF cy > 0 THEN cy ELSE 0 >>

\* preferred_velocity of Agent.decide_action
PreferredVelocity(a) ==
    IF a.goal = None THEN None
    ELSE LET t == toroidal_distance(a.position, a.goal, width, height)
         IN  IF Lt(I(0), t[3])
             THEN << Mul(Div(t[1], t[3]), a.max_speed), Mul(Div(t[2], t[3]), a.max_speed) >>
             ELSE None

\* what controller.decide_action may return inside the simulator: the
\* controller state is updated as written; of the sampling controller's
\* candidates those along the x axis (on which the simulator specification
\* keeps every agent) are kept, whichever the cost would select
ControllerOutcomes(a, spm_tensor, precision_matrix, env_haze_value, preferred_velocity) ==
    IF a.controller.kind = "EPHController"
    THEN LET ctl == UpdateSelfHaze(a.controller, Norm(a.velocity))
         IN  { [ action |-> Candidates(a)[k],
                 agent |-> [a EXCEPT !.controller = ctl],
                 precision_matrix |->
                     CallerPrecisionAfter(ctl.haze_self, precision_matrix, env_haze_value) ] :
               k \in { k \in 1 .. n_samples + 2 : Candidates(a)[k][2] = I(0) } }
    ELSE Gradient_decide_action(a, spm_tensor, precision_matrix, env_haze_value,
                                preferred_velocity)

\* a deposit without the cap
Deposit_uncapped(g, cell) == [g EXCEPT ![cell] = Add(g[cell], Q(1, 10))]

\* the stigmergy deposit at the end of Agent.decide_action
Deposit(g, cell) == [g EXCEPT ![cell] = Min(I(1), Add(g[cell], HazeDeposit))]

----------------------------------------------------------------------------
(* The simulator specification: agents on the line y = 50 of the 100 x 100  *)
(* world, velocities along the line.                                        *)

MaxAgents == 3
MaxSteps == 2

AgentXs == {40, 55, 70, 95}
LineY == 50
ObstacleAt(x) == [x |-> I(x), y |-> I(LineY), radius |-> I(DefaultRadius)]
ObstacleLayouts == { <<>>, << ObstacleAt(20) >> }
SetVelocityInputs == { V(10, 0), V(60, 0), V(-30, 0) }

\* agents without a controller (tests/test_core.py): every non-decreasing
\* placement of up to MaxAgents agents on AgentXs
PhysicsScenarios ==
    { [xs |-> xs, kind |-> "None", obs |-> obs, goal |-> None] :
        xs \in { f \in UNION { [1 .. n -> AgentXs] : n \in 1 .. MaxAgents } :
                   \A i \in 1 .. Len(f) - 1 : f[i] <= f[i + 1] },
        obs \in ObstacleLayouts }

\* agents that all carry the same kind of controller; the first of them may
\* have a goal
ControlScenarios ==
    { [xs |-> xs, kind |-> kind, obs |-> obs, goal |-> g] :
        xs \in { <<40>>, <<95>>, <<40, 55>>, <<40, 95>> },
        kind \in {"EPHController", "GradientEPHController"},
        obs \in ObstacleLayouts,
        g \in { None, V(10, LineY) } }
    \cup
    { [xs |-> <<40, 55, 55>>, kind |-> kind, obs |-> <<>>, goal |-> None] :
        kind \in {"EPHController", "GradientEPHController"} }

NoCall == [agent |-> 0]

NewController(kind, angle) ==
    IF kind = "EPHController" THEN NewEPHController
    ELSE IF kind = "GradientEPHController" THEN NewGradientEPHController(angle)
    ELSE NoController

ScenarioAgents(sc) ==
    [i \in 1 .. Len(sc.xs) |->
        [NewAgent(I(sc.xs[i]), I(LineY), NewController(sc.kind, 0))
            EXCEPT !.goal = IF i = 1 THEN sc.goal ELSE None]]

Init ==
    /\ \E sc \in PhysicsScenarios \cup ControlScenarios :
         /\ agents = ScenarioAgents(sc)
         /\ obstacles = sc.obs
    /\ haze_grid = EmptyGrid
    /\ time = I(0)
    /\ pc = <<"sense", 1>>
    /\ last_call = NoCall
    /\ grid_at_start = EmptyGrid
    /\ before = <<>>
    /\ calls = 0

\* a call of Agent.set_velocity before the first step (tests/test_core.py)
SetVelocity(i, v) ==
    /\ pc = <<"sense", 1>>
    /\ time = I(0)
    /\ agents[i].velocity = V(0, 0)
    /\ agents[i].controller.kind = "None"
    /\ agents' = [agents EXCEPT ![i] = set_velocity(agents[i], v)]
    /\ UNCHANGED <<obstacles, haze_grid, time, pc, last_call, grid_at_start, before, calls>>

\* Simulator.step, loop body, first statement: agent.sense(environment)
Sense(i) ==
    /\ pc = <<"sense", i>>
    /\ \E spm \in compute_spm(agents, obstacles, i) :
         agents' = [agents EXCEPT ![i] = AgentSense(agents[i], spm)]
    /\ pc' = <<"decide", i>>
    /\ UNCHANGED <<obstacles, haze_grid, time, last_call, grid_at_start, before, calls>>

\* a read of the cell that already holds the reader's own deposit
LocalHaze_after_deposit(g, cell) == Min(I(1), Add(g[cell], Q(1, 10)))

\* the grid value Agent.decide_action reads before it calls the controller
LocalHaze(g, cell) == g[cell]

\* a step that goes to the update after the first agent has decided
AfterDecide_first_only(i) == <<"update", 0>>

AfterDecide(i) == IF i < Len(agents) THEN <<"sense", i + 1>> ELSE <<"update", 0>>

\* Agent.decide_action of agent i: what it does to the agent, to the haze
\* grid and to the record of the last controller call
AgentDecideAction(i) ==
    LET a == agents[i]
        cell == GridIndex(a.position)
        env_haze == LocalHaze(haze_grid, cell)
        pv == PreferredVelocity(a)
    IN  IF a.controller.kind # "None" /\ a.current_spm # None
        THEN \E out \in ControllerOutcomes(a, a.current_spm, a.current_precision,
                                           env_haze, pv) :
               /\ agents' = [agents EXCEPT ![i] =
                     [set_velocity(out.agent, out.action)
                         EXCEPT !.current_precision = out.precision_matrix]]
               /\ haze_grid' = Deposit(haze_grid, cell)
               /\ last_call' = [agent |-> i, env_haze |-> env_haze,
                                preferred_velocity |-> pv, action |-> out.action]
        ELSE UNCHANGED <<agents, haze_grid, last_call>>

\* Environment.update: what it does to the environment
EnvironmentUpdate ==
    /\ time' = Add(time, dt)
    /\ haze_grid' = DecayGrid(haze_grid)
    /\ agents' = UpdatedAgents(agents, obstacles)
    /\ UNCHANGED obstacles

\* Simulator.step, loop body, second statement: agent.decide_action(environment)
Decide(i) ==
    /\ pc = <<"decide", i>>
    /\ AgentDecideAction(i)
    /\ pc' = AfterDecide(i)
    /\ UNCHANGED <<obstacles, time, grid_at_start, before, calls>>

\* Simulator.step, last statement: Environment.update
Update ==
    /\ pc = <<"update", 0>>
    /\ EnvironmentUpdate
    /\ pc' = IF Lt(time', I(MaxSteps)) THEN <<"sense", 1>> ELSE <<"done", 0>>
    /\ grid_at_start' = haze_grid'
    /\ last_call' = NoCall
    /\ before' = agents
    /\ UNCHANGED calls

Next ==
    \/ \E i \in 1 .. Len(agents), v \in SetVelocityInputs : SetVelocity(i, v)
    \/ \E i \in 1 .. Len(agents) : Sense(i)
    \/ \E i \in 1 .. Len(agents) : Decide(i)
    \/ Update

Spec == Init /\ [][Next]_vars

----------------------------------------------------------------------------
(* Properties of the simulator specification.                               *)

\* C3: in every reachable state every agent's speed is at most its
\* max_speed: after set_velocity, after decide_action of either controller
\* and after Environment.update.
C3_SpeedBounded ==
    \A i \in 1 .. Len(agents) : Le(Norm(agents[i].velocity), agents[i].max_speed)

\* an agent whose requested 60 was rescaled to max_speed 50 and that has gone
\* through an update, next to one that a controller drives at max_speed
C3_AtMaxSpeed ==
    /\ Lt(I(0), time)
    /\ \E i \in 1 .. Len(agents) :
         \/ agents[i].controller.kind = "None" /\ agents[i].velocity = V(50, 0)
         \/ agents[i].controller.kind # "None"
              /\ Norm(agents[i].velocity) = agents[i].max_speed

\* Environment.update has just returned
JustUpdated == before # <<>> /\ pc \in { <<"sense", 1>>, <<"done", 0>> }

\* the agent list after steps 1 and 2 of the update that has just returned
Integrated == IntegrateAll(ClampAll(before, obstacles))

\* the toroidal distance from agent a to the centre of obstacle ob
ObstacleDistance(a, ob) == toroidal_distance(a.position, <<ob.x, ob.y>>, width, height)[3]

\* no obstacle within the clamp range of agent i when the update began
NoObstacleInClampRange(i) ==
    \A k \in 1 .. Len(obstacles) :
        ~Lt(ObstacleDistance(before[i], obstacles[k]),
            Mul(Add(before[i].radius, obstacles[k].radius), SafetyMargin))

\* agents a and b overlap: 0 < dist < a.radius + b.radius
AgentsOverlap(a, b) ==
    LET dist == toroidal_distance(a.position, b.position, width, height)[3]
    IN  Lt(dist, Add(a.radius, b.radius)) /\ Lt(I(0), dist)

\* no agent overlaps agent i after the integration
NoOverlappingAgent(i) ==
    \A j \in 1 .. Len(before) : j # i => ~AgentsOverlap(Integrated[i], Integrated[j])

\* no two agents overlap after the integration
NoOverlappingPair(as) ==
    \A i \in 1 .. Len(as) : \A j \in 1 .. Len(as) : i # j => ~AgentsOverlap(as[i], as[j])

\* agent i overlaps no obstacle after the integration
NoObstacleOverlapped(i) ==
    \A k \in 1 .. Len(obstacles) :
        LET gap == ObstacleDistance(Integrated[i], obstacles[k])
        IN  ~(Lt(gap, Add(before[i].radius, obstacles[k].radius)) /\ Lt(I(0), gap))

\* position ((x + vx*dt) mod width, (y + vy*dt) mod height), velocity as before
PureWraparound(i) ==
    /\ agents[i].position =
          << PyMod(Add(before[i].position[1], Mul(before[i].velocity[1], dt)), I(width)),
             PyMod(Add(before[i].position[2], Mul(before[i].velocity[2], dt)), I(height)) >>
    /\ agents[i].velocity = before[i].velocity

\* C4 as stated: an agent with no obstacle within clamp range and no
\* overlapping agent ends Environment.update at ((x + vx*dt) mod width,
\* (y + vy*dt) mod height) with its velocity unchanged.
C4_Wraparound ==
    JustUpdated =>
        \A i \in 1 .. Len(agents) :
            NoObstacleInClampRange(i) /\ NoOverlappingAgent(i) => PureWraparound(i)

\* C4, amended: an agent with no obstacle within clamp range before the
\* move and none overlapped after it, in a world where no two agents overlap
\* after the integration, ends Environment.update at ((x + vx*dt) mod width,
\* (y + vy*dt) mod height) with its velocity unchanged.
C4_WraparoundClear ==
    JustUpdated =>
        \A i \in 1 .. Len(agents) :
            /\ NoObstacleInClampRange(i)
            /\ NoObstacleOverlapped(i)
            /\ NoOverlappingPair(Integrated)
            => PureWraparound(i)

\* the agent of tests/test_core.py: (95, 50) with velocity (10, 0) is at
\* (5, 50) after the update, still with velocity (10, 0)
C4_Wrapped ==
    /\ JustUpdated
    /\ \E i \in 1 .. Len(agents) :
         /\ before[i].position = V(95, 50)
         /\ before[i].velocity = V(10, 0)
         /\ agents[i].position = V(5, 50)
         /\ agents[i].velocity = V(10, 0)
         /\ NoObstacleInClampRange(i) /\ NoObstacleOverlapped(i)
         /\ NoOverlappingPair(Integrated)

Perms(n) == { p \in [1 .. n -> 1 .. n] : \A x, y \in 1 .. n : x # y => p[x] # p[y] }
Permute(as, p) == [k \in 1 .. Len(as) |-> as[p[k]]]

\* Environment.update gives every agent the same position and velocity
\* whatever the order of the list as
OrderIndependent(as) ==
    \A direct \in { UpdatedAgents(as, obstacles) } :
        \A p \in Perms(Len(as)) :
            \A permuted \in { UpdatedAgents(Permute(as, p), obstacles) } :
                \A k \in 1 .. Len(as) :
                    /\ permuted[k].position = direct[p[k]].position
                    /\ permuted[k].velocity = direct[p[k]].velocity

\* all agents of the step have decided, Environment.update comes next
AllDecided == pc = <<"update", 0>>

\* C5 as stated: once every agent has decided, the positions and velocities
\* at the end of the step are the same for every order of the agent list.
C5_OrderIndependent == AllDecided => OrderIndependent(agents)

\* C5, amended: once every agent has decided, the positions and velocities
\* at the end of the step are the same for every order of the agent list
\* provided the list has at most two agents or no two agents overlap after
\* the integration.
C5_OrderIndependentPairs ==
    AllDecided =>
        (Len(agents) <= 2 \/ NoOverlappingPair(IntegrateAll(ClampAll(agents, obstacles)))
            => OrderIndependent(agents))

\* two agents that overlap after the integration, about to be resolved
C5_TwoOverlapping ==
    /\ AllDecided
    /\ Len(agents) = 2
    /\ ~NoOverlappingPair(IntegrateAll(ClampAll(agents, obstacles)))

RECURSIVE HazeAfterDeposits(_, _)
HazeAfterDeposits(x, n) ==
    IF n = 0 THEN x ELSE Min(I(1), Add(HazeAfterDeposits(x, n - 1), Q(1, 10)))

\* the agents before agent i in the list that stand in its grid cell and
\* have deposited in this step
EarlierDepositors(i) ==
    { j \in 1 .. i - 1 :
        /\ GridIndex(agents[j].position) = GridIndex(agents[i].position)
        /\ agents[j].controller.kind # "None"
        /\ agents[j].current_spm # None }

\* C6: the environmental haze value passed to agent i's controller is its
\* cell's value at the start of the step plus one capped deposit of 0.1 for
\* each agent before i in the list that deposited in the same cell in this
\* step; agent i's own deposit is not in it.
C6_HazeSeen ==
    last_call.agent # 0 =>
        last_call.env_haze =
            HazeAfterDeposits(grid_at_start[GridIndex(agents[last_call.agent].position)],
                              Cardinality(EarlierDepositors(last_call.agent)))

\* the third agent of a cell is handed the two deposits made before it
C6_ThirdSeesTwo ==
    /\ last_call.agent = 3
    /\ Cardinality(EarlierDepositors(3)) = 2
    /\ last_call.env_haze = Add(grid_at_start[GridIndex(agents[3].position)], Q(1, 5))
    /\ haze_grid[GridIndex(agents[3].position)] = Add(last_call.env_haze, Q(1, 10))

----------------------------------------------------------------------------
(* The haze specification: a script that holds one agent with a controller  *)
(* and calls agent.sense, agent.decide_action and environment.update in any *)
(* order, so that deposits and decays interleave freely.                    *)

MaxDeposits == 11
MaxDecays == 1

InitHaze ==
    /\ \E kind \in {"EPHController", "GradientEPHController"} :
         agents = ScenarioAgents([xs |-> <<40>>, kind |-> kind, obs |-> <<>>, goal |-> None])
    /\ obstacles = <<>>
    /\ haze_grid = EmptyGrid
    /\ time = I(0)
    /\ pc = <<"script", 0>>
    /\ last_call = NoCall
    /\ grid_at_start = EmptyGrid
    /\ before = <<>>
    /\ calls = 0

\* the script calls agent.sense(environment)
ScriptSense(i) ==
    /\ pc = <<"script", 0>>
    /\ \E spm \in compute_spm(agents, obstacles, i) :
         agents' = [agents EXCEPT ![i] = AgentSense(agents[i], spm)]
    /\ UNCHANGED <<obstacles, haze_grid, time, pc, last_call, grid_at_start, before, calls>>

\* the script calls agent.decide_action(environment)
ScriptDecide(i) ==
    /\ pc = <<"script", 0>>
    /\ calls < MaxDeposits
    /\ AgentDecideAction(i)
    /\ calls' = calls + 1
    /\ UNCHANGED <<obstacles, time, pc, grid_at_start, before>>

\* the script calls environment.update()
ScriptUpdate ==
    /\ pc = <<"script", 0>>
    /\ Lt(time, I(MaxDecays))
    /\ EnvironmentUpdate
    /\ before' = agents
    /\ UNCHANGED <<pc, last_call, grid_at_start, calls>>

NextHaze ==
    \/ \E i \in 1 .. Len(agents) : ScriptSense(i)
    \/ \E i \in 1 .. Len(agents) : ScriptDecide(i)
    \/ ScriptUpdate

SpecHaze == InitHaze /\ [][NextHaze]_vars

\* C10: every cell of the haze grid is in [0, 1] in every state reachable
\* from the all-zero grid by deposits and decays in any order.
C10_HazeInUnitInterval ==
    \A c \in Cells : Le(I(0), haze_grid[c]) /\ Le(haze_grid[c], I(1))

\* eleven deposits in one cell with no decay in between: the eleventh was
\* capped at 1.0 -- and a cell that has been capped and then decayed
C10_Capped ==
    \/ /\ calls = 11 /\ time = I(0)
       /\ \E c \in Cells : haze_grid[c] = I(1)
    \/ /\ calls >= 11 /\ Lt(I(0), time)
       /\ \E c \in Cells : haze_grid[c] = Q(99, 100)

----------------------------------------------------------------------------
(* The overlap specification: one agent anywhere around one obstacle, and   *)
(* one direct call of Environment._resolve_collisions.  The agent sits at   *)
(* a rational distance from the obstacle centre along a direction with      *)
(* rational cosine and sine, so every distance is exact.                    *)

OverlapDirections == { Quadrant(d, q) : d \in { Dir0, <<Q(3, 5), Q(4, 5)>> }, q \in 0 .. 3 }
OverlapDistances == { 5, 10, 15, 25 }
OverlapCentres == { V(50, 50), V(5, 50) }
OverlapVelocities == { V(0, 0), V(10, 0), V(-10, 0), V(0, 10), V(6, -8) }

\* an agent at distance dist from centre c in direction d, moving with v
AgentNear(c, d, dist, v) ==
    LET p == VAdd(c, VScale(I(dist), d))
    IN  set_velocity(enforce_boundaries(NewAgent(p[1], p[2], NoController)), v)

InitOverlap ==
    /\ \E c \in OverlapCentres, d \in OverlapDirections,
          dist \in OverlapDistances, v \in OverlapVelocities :
         /\ agents = << AgentNear(c, d, dist, v) >>
         /\ obstacles = << [x |-> c[1], y |-> c[2], radius |-> I(DefaultRadius)] >>
    /\ haze_grid = EmptyGrid
    /\ time = I(0)
    /\ pc = <<"resolve", 0>>
    /\ last_call = NoCall
    /\ grid_at_start = EmptyGrid
    /\ before = <<>>
    /\ calls = 0

\* a call of Environment._resolve_collisions
ResolveCollisions ==
    /\ pc = <<"resolve", 0>>
    /\ before' = agents
    /\ agents' = resolve_collisions(agents, obstacles)
    /\ pc' = <<"resolved", 0>>
    /\ UNCHANGED <<obstacles, haze_grid, time, last_call, grid_at_start, calls>>

NextOverlap == ResolveCollisions

SpecOverlap == InitOverlap /\ [][NextOverlap]_vars

\* 0 < d < agent.radius + obstacle radius
Overlapping(a, ob) ==
    /\ Lt(I(0), ObstacleDistance(a, ob))
    /\ Lt(ObstacleDistance(a, ob), Add(a.radius, ob.radius))

\* the component of velocity v of agent a along the unit vector from a to
\* the centre of obstacle ob (positive: into the obstacle)
InwardComponent(a, v, ob) ==
    LET t == toroidal_distance(a.position, <<ob.x, ob.y>>, width, height)
    IN  Div(Dot(v, <<t[1], t[2]>>), t[3])

\* C1: after _resolve_collisions an agent that overlapped an obstacle
\* (0 < d < agent.radius + obstacle radius) is at distance exactly
\* agent.radius + obstacle radius from the obstacle centre, and the obstacle
\* list is what it was.
C1_PushedOut ==
    pc = <<"resolved", 0>> =>
        \A i \in 1 .. Len(agents) : \A k \in 1 .. Len(obstacles) :
            Overlapping(before[i], obstacles[k]) =>
                ObstacleDistance(agents[i], obstacles[k])
                    = Add(before[i].radius, obstacles[k].radius)

\* C2: after _resolve_collisions of an overlapping agent, a velocity
\* component into the obstacle has been zeroed, and a velocity that had no
\* component into the obstacle is unchanged.
C2_InwardZeroed ==
    pc = <<"resolved", 0>> =>
        \A i \in 1 .. Len(agents) : \A k \in 1 .. Len(obstacles) :
            Overlapping(before[i], obstacles[k]) =>
                IF Lt(I(0), InwardComponent(before[i], before[i].velocity, obstacles[k]))
                THEN InwardComponent(before[i], agents[i].velocity, obstacles[k]) = I(0)
                ELSE agents[i].velocity = before[i].velocity

\* the agent at (35, 50), 15 from the obstacle centre (50, 50) with the radii
\* adding up to 20, ends at (40, 50): 10 from the centre, deeper inside
C1_MovedInward ==
    /\ pc = <<"resolved", 0>>
    /\ obstacles[1].x = I(50)
    /\ before[1].position = V(35, 50)
    /\ agents[1].position = V(40, 50)
    /\ ObstacleDistance(agents[1], obstacles[1]) = I(10)

\* the same agent keeps its velocity (10, 0) into the obstacle, and the
\* one that was leaving with (-10, 0) is stopped
C2_InwardKept ==
    /\ pc = <<"resolved", 0>>
    /\ obstacles[1].x = I(50)
    /\ before[1].position = V(35, 50)
    /\ \/ before[1].velocity = V(10, 0) /\ agents[1].velocity = V(10, 0)
       \/ before[1].velocity = V(-10, 0) /\ agents[1].velocity = V(0, 0)

----------------------------------------------------------------------------
(* The controller specification: a driver that holds one agent and calls    *)
(* controller.decide_action on it over and over with the same arguments,    *)
(* as tests/test_eph.py does.  The driver never applies the returned        *)
(* action; it may let the agent go once, by assigning agent.velocity.       *)

MaxCalls == 104

OnesMatrix(nr, nt) == [r \in 1 .. nr |-> [t \in 1 .. nt |-> I(1)]]

\* occupancy 1 in every angular bin of the nearest ring
SurroundedSpm(nr, nt) ==
    << [r \in 1 .. nr |-> [t \in 1 .. nt |-> IF r = 1 THEN I(1) ELSE I(0)]],
       ZeroMatrix(nr, nt), ZeroMatrix(nr, nt) >>

DriverInputs ==
    { [ spm_tensor |-> ZeroSpm(2, 6), precision_matrix |-> ZeroMatrix(2, 6),
        env_haze_value |-> I(0), preferred_velocity |-> None ],
      [ spm_tensor |-> SurroundedSpm(2, 6), precision_matrix |-> OnesMatrix(2, 6),
        env_haze_value |-> I(0), preferred_velocity |-> None ],
      [ spm_tensor |-> ZeroSpm(2, 6),
        precision_matrix |-> << [t \in 1 .. 6 |-> I(1)], [t \in 1 .. 6 |-> Q(1, 2)] >>,
        env_haze_value |-> Q(1, 2), preferred_velocity |-> V(50, 0) ] }

\* the calls after which the driver may let the agent go
ReleasePoints == { 0, 60 }
ReleaseVelocity == V(50, 0)

InitController ==
    /\ \E kind \in {"EPHController", "GradientEPHController"} :
         agents = << NewAgent(I(0), I(0), NewController(kind, 0)) >>
    /\ obstacles = <<>>
    /\ haze_grid = EmptyGrid
    /\ time = I(0)
    /\ pc = <<"driver", 0>>
    /\ last_call = NoCall
    /\ grid_at_start = EmptyGrid
    /\ before = <<>>
    /\ calls = 0

\* controller.decide_action as the controller's class defines it: the set of
\* records [action, agent, precision_matrix] a call may produce
controller_decide_action(a, in) ==
    IF a.controller.kind = "EPHController"
    THEN { EPH_decide_action(a, in.spm_tensor, in.precision_matrix,
                             in.env_haze_value, in.preferred_velocity) }
    ELSE Gradient_decide_action(a, in.spm_tensor, in.precision_matrix,
                                in.env_haze_value, in.preferred_velocity)

\* the driver calls controller.decide_action(spm, precision, env_haze, pv)
ControllerDecide(in) ==
    /\ pc \in { <<"driver", 0>>, <<"returned", 0>> }
    /\ calls < MaxCalls
    /\ IF last_call.agent = 0 THEN TRUE ELSE in = last_call.args
    /\ \E out \in controller_decide_action(agents[1], in) :
         /\ agents' = << out.agent >>
         /\ last_call' = [ agent |-> 1,
                           args |-> in,
                           action |-> out.action,
                           precision_after |-> out.precision_matrix,
                           previous |-> IF last_call.agent = 0 THEN None
                                        ELSE [ action |-> last_call.action,
                                               velocity |-> before[1].velocity ] ]
    /\ before' = agents
    /\ calls' = calls + 1
    /\ pc' = <<"returned", 0>>
    /\ UNCHANGED <<obstacles, haze_grid, time, grid_at_start>>

\* the driver assigns agent.velocity
DriverRelease ==
    /\ pc \in { <<"driver", 0>>, <<"returned", 0>> }
    /\ calls \in ReleasePoints
    /\ agents[1].velocity = V(0, 0)
    /\ agents' = << [agents[1] EXCEPT !.velocity = ReleaseVelocity] >>
    /\ pc' = <<"driver", 0>>
    /\ UNCHANGED <<obstacles, haze_grid, time, last_call, grid_at_start, before, calls>>

NextController ==
    \/ \E in \in DriverInputs : ControllerDecide(in)
    \/ DriverRelease

SpecController == InitController /\ [][NextController]_vars

----------------------------------------------------------------------------
(* Properties of the controller specification.                              *)

\* decide_action has just returned
Called == pc = <<"returned", 0>>

\* every call so far was made at speed 0 (the driver has not let the agent go)
SlowRun == agents[1].velocity = V(0, 0)

\* C7 as stated: haze_self is 0 before the first call and after each of the
\* first 50 slow calls, and from the 51st consecutive slow call on every call
\* leaves haze_self strictly larger than it found it.
C7_StrictlyIncreasing ==
    /\ calls = 0 => agents[1].controller.haze_self = I(0)
    /\ SlowRun /\ calls <= 50 => agents[1].controller.haze_self = I(0)
    /\ SlowRun /\ calls >= 51 =>
          Lt(before[1].controller.haze_self, agents[1].controller.haze_self)

\* C7, amended: haze_self is 0 before the first call and after each of the
\* first 50 slow calls, grows by 0.05 with each of the 51st to 70th
\* consecutive slow calls, and is 1.0, unchanged by the call, from the 71st
\* on.
C7_RisesToOne ==
    /\ calls = 0 => agents[1].controller.haze_self = I(0)
    /\ SlowRun /\ calls <= 50 => agents[1].controller.haze_self = I(0)
    /\ SlowRun /\ calls >= 51 /\ calls <= 70 =>
          /\ agents[1].controller.haze_self = Mul(I(calls - 50), Q(5, 100))
          /\ Lt(before[1].controller.haze_self, agents[1].controller.haze_self)
    /\ SlowRun /\ calls >= 71 =>
          /\ agents[1].controller.haze_self = I(1)
          /\ before[1].controller.haze_self = I(1)

\* the 71st slow call of either controller: haze_self was 1.0 and stays 1.0
C7_Saturated ==
    /\ SlowRun
    /\ calls = 71
    /\ agents[1].controller.stuck_counter = 71
    /\ before[1].controller.haze_self = I(1)
    /\ agents[1].controller.haze_self = I(1)

\* the sampling controller's decide_action has returned
SamplingCalled == Called /\ agents[1].controller.kind = "EPHController"

\* C8 as stated: a call of the sampling controller's decide_action leaves
\* every field of the controller and of the agent as it was, and returns the
\* action the previous call with the same arguments returned.
C8_Pure ==
    SamplingCalled =>
        /\ agents = before
        /\ last_call.previous # None => last_call.action = last_call.previous.action

\* C8, amended: a call of the sampling controller's decide_action leaves
\* every field of the agent except its controller as it was, changes of the
\* controller only stuck_counter (by one, up when the agent is slower than
\* 5.0, down to at least 0 otherwise) and haze_self, and returns the action
\* the previous call with the same arguments returned whenever the agent's
\* velocity and the haze_self the call arrives at are the same as then.
C8_CounterAndHazeOnly ==
    SamplingCalled =>
        /\ [agents[1] EXCEPT !.controller = before[1].controller] = before[1]
        /\ [agents[1].controller EXCEPT
               !.stuck_counter = before[1].controller.stuck_counter,
               !.haze_self = before[1].controller.haze_self] = before[1].controller
        /\ agents[1].controller.stuck_counter =
              IF Lt(Norm(before[1].velocity), SpeedThreshold)
              THEN before[1].controller.stuck_counter + 1
              ELSE IF before[1].controller.stuck_counter > 0
                   THEN before[1].controller.stuck_counter - 1 ELSE 0
        /\ (/\ last_call.previous # None
            /\ last_call.previous.velocity = before[1].velocity
            /\ agents[1].controller.haze_self = before[1].controller.haze_self)
           => last_call.action = last_call.previous.action

\* a call with the arguments and the agent of the call before it that
\* returns another action: surrounded and standing still, the controller
\* answers (0, 0) while haze_self is low and (50, 0) once it is high
C8_ActionChanged ==
    /\ SamplingCalled
    /\ last_call.previous # None
    /\ last_call.previous.velocity = before[1].velocity
    /\ last_call.previous.action = V(0, 0)
    /\ last_call.action = V(50, 0)
    /\ agents[1].controller.stuck_counter = before[1].controller.stuck_counter + 1

----------------------------------------------------------------------------
(* The self-haze specification: a driver that assigns agent.velocity as it  *)
(* likes before each call of controller.decide_action, so that calls at     *)
(* speeds below, at and above the threshold 5.0 mix freely.                 *)

MaxStuck == 56

\* speeds 0 and 5 (the threshold itself)
DriverVelocities == { V(0, 0), V(3, 4) }

SelfHazeInput ==
    [ spm_tensor |-> ZeroSpm(1, 2), precision_matrix |-> OnesMatrix(1, 2),
      env_haze_value |-> I(0), preferred_velocity |-> V(50, 0) ]

InitSelfHaze ==
    /\ \E kind \in {"EPHController", "GradientEPHController"} :
         agents = << NewAgent(I(0), I(0), NewController(kind, 0)) >>
    /\ obstacles = <<>>
    /\ haze_grid = EmptyGrid
    /\ time = I(0)
    /\ pc = <<"driver", 0>>
    /\ last_call = NoCall
    /\ grid_at_start = EmptyGrid
    /\ before = <<>>
    /\ calls = 0

\* one round of the driver: it assigns agent.velocity = v, calls
\* controller.decide_action and drops the returned action
SelfHazeCall(v) ==
    /\ Lt(Norm(v), SpeedThreshold) => agents[1].controller.stuck_counter < MaxStuck
    /\ \E out \in controller_decide_action([agents[1] EXCEPT !.velocity = v],
                                           SelfHazeInput) :
         agents' = << out.agent >>
    /\ before' = << [agents[1] EXCEPT !.velocity = v] >>
    /\ pc' = <<"returned", 0>>
    /\ UNCHANGED <<obstacles, haze_grid, time, last_call, grid_at_start, calls>>

NextSelfHaze == \E v \in DriverVelocities : SelfHazeCall(v)

SpecSelfHaze == InitSelfHaze /\ [][NextSelfHaze]_vars

\* C11: in every state reachable by decide_action calls at any mix of
\* speeds, haze_self is in [0, 1] and stuck_counter is an integer >= 0; a
\* call changes the counter by +1 when the speed is below 5.0 and by -1
\* floored at 0 otherwise, and changes haze_self by +0.05 capped at 1.0 when
\* the updated counter exceeds 50 and by -0.01 floored at 0.0 otherwise.
C11_SelfHazeStep ==
    LET c1 == agents[1].controller.stuck_counter
        h1 == agents[1].controller.haze_self
    IN  /\ c1 \in Nat
        /\ Le(I(0), h1) /\ Le(h1, I(1))
        /\ pc = <<"returned", 0>> =>
              LET c0 == before[1].controller.stuck_counter
                  h0 == before[1].controller.haze_self
                  slow == Lt(Norm(before[1].velocity), Q(5, 1))
                  up == Add(h0, Q(1, 20))
                  down == Sub(h0, Q(1, 100))
              IN  /\ slow => c1 = c0 + 1
                  /\ ~slow => c1 = (IF c0 >= 1 THEN c0 - 1 ELSE 0)
                  /\ c1 > 50 => h1 = (IF Lt(I(1), up) THEN I(1) ELSE up)
                  /\ c1 <= 50 => h1 = (IF Lt(down, I(0)) THEN I(0) ELSE down)

\* a call made at speed exactly 5.0 with the counter still above 50 after
\* its decrement: the counter went down and haze_self went up by 0.05
C11_FastButStillHazing ==
    /\ pc = <<"returned", 0>>
    /\ before[1].velocity = V(3, 4)
    /\ agents[1].controller.stuck_counter = before[1].controller.stuck_counter - 1
    /\ agents[1].controller.stuck_counter > 50
    /\ agents[1].controller.haze_self = Add(before[1].controller.haze_self, Q(1, 20))

\* a decide_action call made at speed 5.0 or more has returned
FastCallReturned ==
    pc = <<"returned", 0>> /\ ~Lt(Norm(before[1].velocity), Q(5, 1))

\* haze_self went down by 0.01, or stayed at 0
HazeDecayed ==
    agents[1].controller.haze_self =
        Max(I(0), Sub(before[1].controller.haze_self, Q(1, 100)))

\* haze_self went up by 0.05, or to 1
HazeRaised ==
    agents[1].controller.haze_self =
        Min(I(1), Add(before[1].controller.haze_self, Q(1, 20)))

\* C25 (as stated): in a decide_action call made at speed 5.0 or more
\* haze_self does not increase: it decays by 0.01 or stays at 0, however
\* many slow calls came before.
C25_FastNeverHazes == FastCallReturned => HazeDecayed

\* C25 (amended): in a decide_action call made at speed 5.0 or more
\* haze_self decays by 0.01 (or stays at 0) when the stuck counter was at
\* most 51 before the call, and rises by 0.05 (capped at 1) when it was 52
\* or more: the call takes 1 off the counter and then tests it against 50.
C25_FastDecaysOnceCounterLow ==
    FastCallReturned =>
        IF before[1].controller.stuck_counter <= 51 THEN HazeDecayed ELSE HazeRaised

\* the fast call that brought the counter from 51 to 50: haze_self, which
\* had been rising, went down
C25_FirstDecay ==
    /\ FastCallReturned
    /\ before[1].controller.stuck_counter = 51
    /\ Lt(I(0), before[1].controller.haze_self)
    /\ Lt(agents[1].controller.haze_self, before[1].controller.haze_self)

----------------------------------------------------------------------------
(* The encoder specification (tests/test_spm.py): an ego agent at the       *)
(* centre of the 100 x 100 world, other agents and obstacles on the two     *)
(* axes through it, one call of compute_spm and then one direct call of     *)
(* _add_to_tensor on the tensor it returned.                                *)

Encoders ==
    { SaliencyPolarMap(10, 12, I(80), 4),    \* the test's shape
      SaliencyPolarMap(4, 4, I(80), 4),
      SaliencyPolarMap(3, 6, I(300), 2),
      SaliencyPolarMap(5, 3, I(40), 2),
      SaliencyPolarMap(10, 12, I(20), 4),    \* d_max = personal_space
      SaliencyPolarMap(3, 6, I(10), 4) }     \* d_max < personal_space

EgoPosition == V(50, 50)

\* other agents: 10 ahead, 20 to the left, 40 behind, 0 away; with velocity
OtherAgents ==
    { <<>>,
      << [p |-> V(60, 50), v |-> V(0, 0)] >>,
      << [p |-> V(50, 70), v |-> V(0, -10)] >>,
      << [p |-> V(10, 50), v |-> V(10, 0)] >>,
      << [p |-> V(50, 50), v |-> V(0, 0)] >>,
      << [p |-> V(60, 50), v |-> V(-10, 0)], [p |-> V(10, 50), v |-> V(0, 0)] >>,
      << [p |-> V(60, 50), v |-> V(0, 0)], [p |-> V(60, 50), v |-> V(0, 10)] >> }

SpmObstacles ==
    { <<>>,
      << [x |-> I(90), y |-> I(50), radius |-> I(DefaultRadius)] >>,
      << [x |-> I(50), y |-> I(40), radius |-> I(DefaultRadius)] >> }

EgoHeadings == { V(1, 0), V(0, 1) }
EgoVelocities == { V(0, 0), V(10, 0) }

\* the arguments of the direct call: distances 0, 10, 40 and 80, angles
\* -pi, 0, pi/4 and pi
DirectDistances == { I(0), I(10), I(40), I(80) }
DirectAngles == { Q(-1, 2), I(0), Q(1, 8), Q(1, 2) }

InitSpm ==
    /\ \E m \in Encoders, others \in OtherAgents, h \in EgoHeadings, v \in EgoVelocities :
         agents = << [NewAgent(EgoPosition[1], EgoPosition[2], NoController)
                        EXCEPT !.spm_module = m, !.orientation = h, !.velocity = v] >>
                  \o [k \in 1 .. Len(others) |->
                        [NewAgent(others[k].p[1], others[k].p[2], NoController)
                           EXCEPT !.velocity = others[k].v]]
    /\ obstacles \in SpmObstacles
    /\ haze_grid = EmptyGrid
    /\ time = I(0)
    /\ pc = <<"spm", 0>>
    /\ last_call = NoCall
    /\ grid_at_start = EmptyGrid
    /\ before = <<>>
    /\ calls = 0

\* tensor = spm.compute_spm(agent, env)
ComputeSpm ==
    /\ pc = <<"spm", 0>>
    /\ last_call' =
         [ agent |-> 1, fn |-> "compute_spm",
           tensor |-> SPM_compute_spm(agents[1].spm_module, agents, obstacles, 1),
           writes |-> SpmWrites(agents[1].spm_module, agents, 1,
                                get_entities(agents, obstacles), 1) ]
    /\ pc' = <<"computed", 0>>
    /\ UNCHANGED <<agents, obstacles, haze_grid, time, grid_at_start, before, calls>>

\* spm._add_to_tensor(tensor, dist, angle, -10, 10, agent)
AddToTensor(dist, angle) ==
    /\ pc = <<"computed", 0>>
    /\ last_call' =
         [ agent |-> 1, fn |-> "_add_to_tensor", dist |-> dist, angle |-> angle,
           tensor_before |-> last_call.tensor,
           tensor |-> add_to_tensor(agents[1].spm_module, last_call.tensor, dist, angle,
                                    I(-10), I(10), agents[1]),
           writes |-> add_to_tensor_writes(agents[1].spm_module, dist, angle, agents[1]) ]
    /\ pc' = <<"added", 0>>
    /\ UNCHANGED <<agents, obstacles, haze_grid, time, grid_at_start, before, calls>>

NextSpm ==
    \/ ComputeSpm
    \/ \E dist \in DirectDistances, angle \in DirectAngles : AddToTensor(dist, angle)

SpecSpm == InitSpm /\ [][NextSpm]_vars

----------------------------------------------------------------------------
(* Properties of the encoder specification.                                 *)

Encoder == agents[1].spm_module

\* the entities compute_spm hands to _add_to_tensor, as EntityView sees them
SeenEntities ==
    { v \in { EntityView(Encoder, agents, 1, get_entities(agents, obstacles)[k]) :
              k \in 1 .. Len(agents) + Len(obstacles) } : v # None }

DegenerateScale == Le(Encoder.d_max, agents[1].personal_space)

WritesInRows(writes, rows) == \A k \in 1 .. Len(writes) : writes[k].r \in rows

\* C12 as stated: with d_max <= personal_space compute_spm skips every
\* entity, and the tensor it returns is all zeros.
C12_AllSkipped ==
    pc = <<"computed", 0>> /\ DegenerateScale =>
        last_call.tensor = ZeroSpm(Encoder.Nr, Encoder.Ntheta)

\* C12, amended: with d_max <= personal_space compute_spm skips the entities
\* beyond d_max and maps every other one to radial centre 0 (it lies within
\* the personal space), so the tensor is all zeros only if no entity is
\* within d_max; _add_to_tensor itself returns without writing when it is
\* handed a distance beyond the personal space.
C12_IntimateOnly ==
    DegenerateScale =>
        /\ pc = <<"computed", 0>> =>
              /\ (last_call.tensor = ZeroSpm(Encoder.Nr, Encoder.Ntheta)) <=> (SeenEntities = {})
              /\ \A v \in SeenEntities : Le(v.dist, agents[1].personal_space)
              /\ WritesInRows(last_call.writes, 0 .. 2)
        /\ pc = <<"added", 0>> /\ Lt(agents[1].personal_space, last_call.dist) =>
              /\ last_call.writes = <<>>
              /\ last_call.tensor = last_call.tensor_before

\* an encoder with d_max = 10 < personal_space = 20 whose compute_spm has
\* put an entity into the tensor, and whose _add_to_tensor then returned at
\* the guard for distance 40
C12_GuardTaken ==
    /\ pc = <<"added", 0>>
    /\ Encoder.d_max = I(10)
    /\ last_call.dist = I(40)
    /\ last_call.tensor = last_call.tensor_before
    /\ last_call.tensor # ZeroSpm(Encoder.Nr, Encoder.Ntheta)

\* C15: every entity nearer than personal_space (and within d_max) is mapped
\* to radial centre 0 (its kernel reaches rows 0 to 2 only) and leaves
\* positive occupancy in radial bin 0; directly ahead, the occupancy is in
\* angular bin Ntheta / 2, where the entity's own weight is 1 > 0.1.
C15_IntimateBin ==
    pc = <<"computed", 0>> =>
        \A v \in SeenEntities :
            Lt(v.dist, agents[1].personal_space) =>
                /\ RadialCentre(Encoder, v.dist, agents[1].personal_space) = I(0)
                /\ WritesInRows(add_to_tensor_writes(Encoder, v.dist, v.angle, agents[1]),
                                0 .. 2)
                /\ \E t \in 1 .. Encoder.Ntheta : Lt(I(0), last_call.tensor[1][1][t])
                /\ v.angle = I(0) =>
                       Lt(Q(1, 10), last_call.tensor[1][1][Encoder.Ntheta \div 2 + 1])

\* the test: Nr = 10, Ntheta = 12, personal_space 20, one agent 10 ahead
C15_TestMapping ==
    /\ pc = <<"computed", 0>>
    /\ Encoder.Nr = 10 /\ Encoder.Ntheta = 12 /\ Encoder.d_max = I(80)
    /\ agents[1].orientation = V(1, 0)
    /\ Len(agents) = 2 /\ agents[2].position = V(60, 50)
    /\ obstacles = <<>>
    /\ last_call.tensor[1][1][7] = I(1)

\* C17: the tensor compute_spm returns (and _add_to_tensor leaves) has shape
\* (3, Nr, Ntheta), and every kernel write has its radial index in
\* 0 .. Nr - 1 and its angular index in 0 .. Ntheta - 1.
C17_ShapeAndRange ==
    pc \in { <<"computed", 0>>, <<"added", 0>> } =>
        /\ Len(last_call.tensor) = 3
        /\ \A c \in 1 .. 3 :
              /\ Len(last_call.tensor[c]) = Encoder.Nr
              /\ \A r \in 1 .. Encoder.Nr : Len(last_call.tensor[c][r]) = Encoder.Ntheta
        /\ WritesInRows(last_call.writes, 0 .. Encoder.Nr - 1)
        /\ \A k \in 1 .. Len(last_call.writes) :
              last_call.writes[k].t \in 0 .. Encoder.Ntheta - 1

\* a direct call at distance d_max and angle pi: the angular centre is
\* Ntheta, so the loop visits Ntheta - 2 .. Ntheta + 2, and the radial
\* centre is Nr - 1, so the rows Nr and Nr + 1 are dropped
C17_WrappedAndDropped ==
    /\ pc = <<"added", 0>>
    /\ last_call.angle = HalfTurn
    /\ last_call.dist = Encoder.d_max
    /\ Round(AngularCentre(Encoder, last_call.angle)) = Encoder.Ntheta
    /\ RadialCentre(Encoder, last_call.dist, agents[1].personal_space) = I(Encoder.Nr - 1)
    /\ Len(last_call.writes) = 15
    /\ \E k \in 1 .. 15 : last_call.writes[k].t = 1

----------------------------------------------------------------------------
(* The displacement specification: one call of toroidal_distance on points  *)
(* and world sizes for which the raw and the wrapped distance are both      *)
(* rational (deltas along one axis, or Pythagorean in both forms).          *)

Worlds == { <<100, 100>>, <<14, 100>>, <<11, 10>>, <<800, 600>> }
BasePoints == { V(0, 0), V(20, 70) }
AxisDeltas == { -250, -90, -60, -50, -30, 0, 30, 50, 51, 60, 90, 150 }

ToroidalInputs ==
    { [ p1 |-> p, p2 |-> VAdd(p, V(d, 0)), w |-> wh[1], h |-> wh[2] ] :
        p \in BasePoints, d \in AxisDeltas, wh \in Worlds }
    \cup
    { [ p1 |-> p, p2 |-> VAdd(p, V(0, d)), w |-> wh[1], h |-> wh[2] ] :
        p \in BasePoints, d \in AxisDeltas, wh \in Worlds }
    \cup
    { [ p1 |-> V(1, 2), p2 |-> V(9, 8), w |-> 11, h |-> 10 ],      \* (8, 6) -> (-3, -4)
      [ p1 |-> V(9, 8), p2 |-> V(1, 2), w |-> 11, h |-> 10 ],
      [ p1 |-> V(1, 2), p2 |-> V(10, 14), w |-> 14, h |-> 100 ],   \* (9, 12) -> (-5, 12)
      [ p1 |-> V(1, 2), p2 |-> V(4, 6), w |-> 11, h |-> 10 ],      \* (3, 4), no wrap
      [ p1 |-> V(10, 10), p2 |-> V(40, 50), w |-> 100, h |-> 100 ] }

InitToroidal ==
    /\ agents = <<>>
    /\ obstacles = <<>>
    /\ haze_grid = EmptyGrid
    /\ time = I(0)
    /\ pc = <<"call", 0>>
    /\ \E in \in ToroidalInputs : last_call = [ agent |-> 0, args |-> in ]
    /\ grid_at_start = EmptyGrid
    /\ before = <<>>
    /\ calls = 0

\* dx, dy, dist = toroidal_distance(p1, p2, width, height)
CallToroidalDistance ==
    /\ pc = <<"call", 0>>
    /\ last_call' = [ agent |-> 0, args |-> last_call.args,
                      result |-> toroidal_distance(last_call.args.p1, last_call.args.p2,
                                                   last_call.args.w, last_call.args.h) ]
    /\ pc' = <<"returned", 0>>
    /\ UNCHANGED <<agents, obstacles, haze_grid, time, grid_at_start, before, calls>>

NextToroidal == CallToroidalDistance

SpecToroidal == InitToroidal /\ [][NextToroidal]_vars

RawDelta == VSub(last_call.args.p2, last_call.args.p1)
Euclidean == Sqrt(Add(Sq(RawDelta[1]), Sq(RawDelta[2])))

\* C13: the distance toroidal_distance returns is at most the Euclidean
\* distance of the two points, and when |dx| <= W/2 and |dy| <= H/2 it
\* returns the raw deltas and the Euclidean distance itself.
C13_AtMostEuclidean ==
    pc = <<"returned", 0>> =>
        /\ Le(last_call.result[3], Euclidean)
        /\ ( /\ Le(Abs(RawDelta[1]), Q(last_call.args.w, 2))
             /\ Le(Abs(RawDelta[2]), Q(last_call.args.h, 2)) ) =>
               last_call.result = << RawDelta[1], RawDelta[2], Euclidean >>

\* both axes wrapped: the raw delta (8, 6) of length 10 comes back as
\* (-3, -4) of length 5 in the 11 x 10 world
C13_BothWrapped ==
    /\ pc = <<"returned", 0>>
    /\ RawDelta = V(8, 6)
    /\ last_call.result = << I(-3), I(-4), I(5) >>
    /\ Lt(last_call.result[3], Euclidean)

----------------------------------------------------------------------------
(* An idle agent with and without one entity directly ahead of it: the      *)
(* sequence of the tests' calls, agent.sense(env) followed by               *)
(* controller.decide_action(current_spm, current_precision, 0.0), made once *)
(* with the entity in the environment and once more, for a fresh copy of    *)
(* the agent, without it.  The gradient controller is given an encoder of   *)
(* two angular bins, which keeps the descent on one axis and every norm it  *)
(* takes rational.                                                          *)

AheadSetups ==
    { [ ctl |-> NewEPHController, m |-> SaliencyPolarMap(6, 6, I(320), 4) ],
      [ ctl |-> NewEPHController, m |-> SaliencyPolarMap(3, 4, I(300), 2) ] }
    \cup { [ ctl |-> NewGradientEPHController(angle),
             m |-> SaliencyPolarMap(3, 2, I(320), 2) ] : angle \in DrawnHeadings }

AheadHeadings == { V(1, 0), V(0, 1), V(-1, 0) }
AheadDistances == { 10, 40 }

InitAhead ==
    /\ \E s \in AheadSetups, h \in AheadHeadings, dist \in AheadDistances,
          as_agent \in BOOLEAN :
         LET ego == [NewAgent(EgoPosition[1], EgoPosition[2], s.ctl)
                       EXCEPT !.spm_module = s.m, !.orientation = h]
             at == VAdd(EgoPosition, VScale(I(dist), h))
         IN  /\ agents = IF as_agent
                         THEN << ego, NewAgent(at[1], at[2], NoController) >>
                         ELSE << ego >>
             /\ obstacles = IF as_agent THEN <<>>
                            ELSE << [x |-> at[1], y |-> at[2], radius |-> I(DefaultRadius)] >>
             /\ before = << ego >>
    /\ haze_grid = EmptyGrid
    /\ time = I(0)
    /\ pc = <<"ahead", 0>>
    /\ last_call = [ agent |-> 1, with_entity |-> None, without_entity |-> None ]
    /\ grid_at_start = EmptyGrid
    /\ calls = 0

\* agent.sense(env) with the agent's own encoder
AgentSenseEncoder(as, obs, i) ==
    [as[i] EXCEPT !.current_spm = SPM_compute_spm(as[i].spm_module, as, obs, i),
                  !.current_precision = SPM_get_precision_matrix(as[i].spm_module, as[i])]

\* controller.decide_action(agent.current_spm, agent.current_precision, 0.0)
AheadDecision(a) ==
    IF a.controller.kind = "EPHController"
    THEN EPH_decide_action(a, a.current_spm, a.current_precision, I(0), None)
    ELSE Gradient_decide_action_descent(a, a.current_spm, a.current_precision, I(0), None)

AheadSense ==
    /\ pc[1] = "ahead" /\ pc[2] \in {0, 3}
    /\ agents' = [agents EXCEPT ![1] = AgentSenseEncoder(agents, obstacles, 1)]
    /\ pc' = <<"ahead", pc[2] + 1>>
    /\ UNCHANGED <<obstacles, haze_grid, time, last_call, grid_at_start, before, calls>>

AheadDecide ==
    /\ pc[1] = "ahead" /\ pc[2] \in {1, 4}
    /\ LET out == AheadDecision(agents[1])
       IN  /\ agents' = [agents EXCEPT ![1] = out.agent]
           /\ last_call' = IF pc[2] = 1
                           THEN [last_call EXCEPT !.with_entity = out.action]
                           ELSE [last_call EXCEPT !.without_entity = out.action]
    /\ pc' = <<"ahead", pc[2] + 1>>
    /\ UNCHANGED <<obstacles, haze_grid, time, grid_at_start, before, calls>>

\* the same situation without the entity: the agent as constructed, alone
AheadRemoveEntity ==
    /\ pc = <<"ahead", 2>>
    /\ agents' = before
    /\ obstacles' = <<>>
    /\ pc' = <<"ahead", 3>>
    /\ UNCHANGED <<haze_grid, time, last_call, grid_at_start, before, calls>>

NextAhead == AheadSense \/ AheadDecide \/ AheadRemoveEntity

SpecAhead == InitAhead /\ [][NextAhead]_vars

\* the component of an action along the agent's heading
HeadingComponent(a, action) == EgoFrame(a, action)[1]

AheadCompared == pc = <<"ahead", 5>>
AheadWith == HeadingComponent(agents[1], last_call.with_entity)
AheadWithout == HeadingComponent(agents[1], last_call.without_entity)

AheadSampling == agents[1].controller.kind = "EPHController"

\* the component of the gradient controller's random target heading along
\* the agent's heading
AheadTarget ==
    Dot(Heading16(agents[1].controller.random_target_angle), agents[1].orientation)

----------------------------------------------------------------------------
(* jax.grad(GradientEPHController._cost_function, argnums=0) called          *)
(* directly, as test_cost_function_differentiable calls it: one obstacle     *)
(* cell in a bin in front of the agent (the bins centred at -30 and +30      *)
(* degrees of six), an action, a precision matrix, a preferred velocity and  *)
(* an orientation.                                                           *)

CostRows == 3
CostColumns == 6

CostActions == { V(10, 5), V(0, 0), V(20, 0), V(-20, 0), V(0, -10), V(-3, -4) }
CostTargets == { V(20, 0), V(-20, 0), V(10, 5), V(0, -10), V(0, 0) }
CostPrecisions ==
    { OnesMatrix(CostRows, CostColumns), ZeroMatrix(CostRows, CostColumns),
      [r \in 1 .. CostRows |-> [t \in 1 .. CostColumns |-> PrecisionRow(r - 1)]] }
\* the obstacle cell <<r, t>>: [0, 0, 3] of the test, its mirror image, and a
\* cell of the outermost ring
CostCells == { <<0, 3>>, <<0, 2>>, <<2, 3>> }
CostOrientations == { V(1, 0), V(0, 1) }

\* the speed-reward branch takes the norm of the action: it is given the
\* actions whose norm is rational
CostInputs ==
    { in \in [ action : CostActions, preferred_vel : CostTargets,
               precision : CostPrecisions, cell : CostCells,
               orientation : CostOrientations ] :
        Lt(I(1), Norm2(in.preferred_vel)) \/ in.action # V(10, 5) }

InitCost ==
    /\ agents = <<>>
    /\ obstacles = <<>>
    /\ haze_grid = EmptyGrid
    /\ time = I(0)
    /\ pc = <<"grad", 0>>
    /\ \E in \in CostInputs : last_call = [ agent |-> 0, args |-> in ]
    /\ grid_at_start = EmptyGrid
    /\ before = <<>>
    /\ calls = 0

\* grad = grad_fn(action, spm, precision, preferred_vel, orientation)
CallGradCost ==
    /\ pc = <<"grad", 0>>
    /\ LET in == last_call.args
           spm == SpmAt(CostRows, CostColumns, in.cell[1], in.cell[2], I(1))
       IN  last_call' = [ agent |-> 0, args |-> in, spm |-> spm,
                          grad |-> cost_gradient([orientation |-> in.orientation], in.action,
                                                 spm, in.precision, in.preferred_vel) ]
    /\ pc' = <<"grad", 1>>
    /\ UNCHANGED <<agents, obstacles, haze_grid, time, grid_at_start, before, calls>>

NextCost == CallGradCost

SpecCost == InitCost /\ [][NextCost]_vars

GradCalled == pc = <<"grad", 1>>

\* occupancy * precision of the obstacle cell
CellWeight ==
    Mul(last_call.spm[1][last_call.args.cell[1] + 1][last_call.args.cell[2] + 1],
        last_call.args.precision[last_call.args.cell[1] + 1][last_call.args.cell[2] + 1])

\* the action's radial velocity toward the obstacle cell's bin
CellApproach ==
    RadialComponents([orientation |-> last_call.args.orientation], last_call.args.action,
                     CostColumns)[last_call.args.cell[2] + 1]

\* the gradient of lambda * M_meta alone
GoalPull == VScale(lambda_weight, MetaGradient(last_call.args.action, last_call.args.preferred_vel))

\* C16 (as stated): the gradient of J with respect to the action is non-zero
\* whenever the occupancy channel is non-zero in a bin in front of the
\* agent, for every action, precision matrix and preferred velocity.
C16_NonZeroInFront ==
    GradCalled => last_call.grad # V(0, 0)

\* C16 (amended): front occupancy enters the gradient only through a cell
\* whose precision is non-zero and whose bin the action does not move away
\* from.  With such a cell that the action approaches, the gradient is
\* non-zero when the goal term does not pull the action back
\* (action . d(lambda M_meta)/d(action) >= 0); without such a cell the
\* gradient is that of lambda * M_meta alone, which is zero for an action
\* equal to the preferred velocity.  For the arguments of
\* test_cost_function_differentiable the gradient is non-zero.
C16_NonZeroWhenApproached ==
    GradCalled =>
        /\ (Lt(I(0), CellWeight) /\ Lt(I(0), CellApproach)
              /\ Le(I(0), Dot(last_call.args.action, GoalPull)))
           => last_call.grad # V(0, 0)
        /\ (CellWeight = I(0) \/ Lt(CellApproach, I(0))) => last_call.grad = GoalPull
        /\ (last_call.args.action = V(10, 5) /\ last_call.args.preferred_vel = V(20, 0)
              /\ last_call.args.precision = OnesMatrix(CostRows, CostColumns)
              /\ last_call.args.cell = <<0, 3>> /\ last_call.args.orientation = V(1, 0))
           => last_call.grad = << Sub(Q(56, 65), I(10)), Add(Q(33, 65), I(5)) >>

\* an approached obstacle cell of precision 1 is all that makes the gradient
\* non-zero: the action equals the preferred velocity
C16_OnlyThePercept ==
    /\ GradCalled
    /\ Lt(I(0), CellWeight) /\ Lt(I(0), CellApproach)
    /\ last_call.args.action = last_call.args.preferred_vel
    /\ last_call.grad # V(0, 0)

----------------------------------------------------------------------------
(* Two agents and no obstacle, and one direct call of                        *)
(* Environment._resolve_collisions: the agent-agent loop visits the one      *)
(* pair.  The second agent sits at a rational distance from the first along  *)
(* a direction with rational cosine and sine.                                *)

PairCentres == { V(50, 50), V(5, 50), V(97, 2) }
PairDistances == { 0, 4, 10, 15, 25 }
\* Agent(x, y, radius=...): the default radius, unequal radii, and radii
\* whose sum exceeds half the width of the world
PairRadii == { <<10, 10>>, <<10, 5>>, <<30, 30>> }
PairVelocities == { <<V(0, 0), V(0, 0)>>, <<V(10, 0), V(-10, 0)>>, <<V(6, -8), V(0, 10)>> }

InitPair ==
    /\ \E c \in PairCentres, d \in OverlapDirections, dist \in PairDistances,
          rr \in PairRadii, vv \in PairVelocities :
         agents = << [AgentNear(c, d, 0, vv[1]) EXCEPT !.radius = I(rr[1])],
                     [AgentNear(c, d, dist, vv[2]) EXCEPT !.radius = I(rr[2])] >>
    /\ obstacles = <<>>
    /\ haze_grid = EmptyGrid
    /\ time = I(0)
    /\ pc = <<"resolve", 0>>
    /\ last_call = NoCall
    /\ grid_at_start = EmptyGrid
    /\ before = <<>>
    /\ calls = 0

NextPair == ResolveCollisions

SpecPair == InitPair /\ [][NextPair]_vars

PairResolved == pc = <<"resolved", 0>> /\ Len(before) = 2

\* the pair's toroidal displacement and distance before the call
PairBefore == toroidal_distance(before[1].position, before[2].position, width, height)

\* 0 < d < r1 + r2 before the call
PairOverlapped ==
    /\ Lt(I(0), PairBefore[3])
    /\ Lt(PairBefore[3], Add(before[1].radius, before[2].radius))

\* (r1 + r2 - d) / 2 along the line of centres, from the first agent to the
\* second
PairPush ==
    VScale(Div(Sub(Add(before[1].radius, before[2].radius), PairBefore[3]),
               Mul(I(2), PairBefore[3])),
           <<PairBefore[1], PairBefore[2]>>)

PairMovedApart ==
    /\ agents[1].position = VSub(before[1].position, PairPush)
    /\ agents[2].position = VAdd(before[2].position, PairPush)
    /\ VAdd(agents[1].position, agents[2].position)
         = VAdd(before[1].position, before[2].position)
    /\ agents[1].velocity = before[1].velocity
    /\ agents[2].velocity = before[2].velocity

PairDistanceAfter ==
    toroidal_distance(agents[1].position, agents[2].position, width, height)[3]

\* C18 (as stated): a pair with toroidal distance 0 < d < r1 + r2 is moved
\* by (r1 + r2 - d) / 2 each, in opposite directions along the line of
\* centres, so that immediately after the correction the distance is r1 + r2
\* and the midpoint is unchanged, and no velocity is modified.
C18_PairSeparated ==
    (PairResolved /\ PairOverlapped) =>
        /\ PairMovedApart
        /\ PairDistanceAfter = Add(before[1].radius, before[2].radius)

\* C18 (amended): the positions, the midpoint and the velocities are as
\* stated; the toroidal distance after the correction is r1 + r2 when
\* r1 + r2 is at most half the width and half the height of the world (a
\* larger separation wraps around).  A pair that does not overlap, or whose
\* centres coincide, is left as it is.
C18_PairSeparatedInWorld ==
    PairResolved =>
        /\ PairOverlapped => PairMovedApart
        /\ (PairOverlapped
              /\ Le(Mul(I(2), Add(before[1].radius, before[2].radius)), I(width))
              /\ Le(Mul(I(2), Add(before[1].radius, before[2].radius)), I(height)))
           => PairDistanceAfter = Add(before[1].radius, before[2].radius)
        /\ ~PairOverlapped => agents = before

\* an overlapping moving pair across the wrap-around seam was separated
C18_SeparatedAcrossSeam ==
    /\ PairResolved /\ PairOverlapped
    /\ Lt(before[2].position[1], before[1].position[1])
    /\ Lt(I(0), PairBefore[1])
    /\ before[1].velocity # V(0, 0)
    /\ PairDistanceAfter = Add(before[1].radius, before[2].radius)

----------------------------------------------------------------------------
(* One agent among one or two obstacles, and one direct call of              *)
(* Environment._clamp_velocity_for_obstacles(agent).  Every obstacle sits at *)
(* a rational distance from the agent along a direction with rational        *)
(* cosine and sine; 15 and 20 are within 1.1 x (10 + 10) = 22 of the agent,  *)
(* 25 is not.                                                                *)

ClampCentres == { V(50, 50), V(5, 50) }
ClampDistances == { 15, 20, 25 }
ClampVelocities == { V(0, 10), V(10, 0), V(6, -8), V(-10, 0), V(30, 40) }

\* the obstacle at distance dist from c in direction d, inside the world
ObstacleNear(c, d, dist) ==
    [ x |-> PyMod(Add(c[1], Mul(I(dist), d[1])), I(width)),
      y |-> PyMod(Add(c[2], Mul(I(dist), d[2])), I(height)),
      radius |-> I(DefaultRadius) ]

ClampPlacements == OverlapDirections \X ClampDistances

InitClamp ==
    /\ \E c \in ClampCentres, v \in ClampVelocities :
         /\ agents = << set_velocity(NewAgent(c[1], c[2], NoController), v) >>
         /\ \/ \E p \in ClampPlacements :
                 obstacles = << ObstacleNear(c, p[1], p[2]) >>
            \/ \E p, q \in ClampPlacements :
                 /\ p # q
                 /\ obstacles = << ObstacleNear(c, p[1], p[2]), ObstacleNear(c, q[1], q[2]) >>
    /\ haze_grid = EmptyGrid
    /\ time = I(0)
    /\ pc = <<"clamp", 0>>
    /\ last_call = NoCall
    /\ grid_at_start = EmptyGrid
    /\ before = <<>>
    /\ calls = 0

\* env._clamp_velocity_for_obstacles(agent)
ClampVelocityForObstacles ==
    /\ pc = <<"clamp", 0>>
    /\ before' = agents
    /\ agents' = << clamp_velocity_for_obstacles(agents[1], obstacles) >>
    /\ pc' = <<"clamped", 0>>
    /\ UNCHANGED <<obstacles, haze_grid, time, last_call, grid_at_start, calls>>

NextClamp == ClampVelocityForObstacles

SpecClamp == InitClamp /\ [][NextClamp]_vars

Clamped == pc = <<"clamped", 0>>

\* obstacle k lies within 1.1 x (agent radius + obstacle radius) of the agent
InClampRange(k) ==
    Lt(ObstacleDistance(agents[1], obstacles[k]),
       Mul(Add(agents[1].radius, obstacles[k].radius), SafetyMargin))

\* the displacement from the agent to obstacle k
TowardObstacle(k) ==
    LET t == toroidal_distance(agents[1].position, <<obstacles[k].x, obstacles[k].y>>,
                               width, height)
    IN  <<t[1], t[2]>>

\* the velocity has no positive component toward obstacle k
NotApproaching(k) == Le(Dot(agents[1].velocity, TowardObstacle(k)), I(0))

-----------------------------------------------------------------------------
(* core/environment.py: Environment.update for one agent that starts       *)
(* outside the obstacles with a velocity aimed at, past or away from them  *)

TunnelCentres == { V(50, 50), V(5, 50) }
TunnelDistances == { 20, 21, 25, 30 }

\* velocities as (component toward the first obstacle, component across it)
TunnelVelocities ==
    { <<10, 0>>, <<30, 0>>, <<50, 0>>, <<-10, 0>>, <<0, 15>>, <<0, 20>>,
      <<20, 15>>, <<15, 20>>, <<-20, 15>>, <<40, 30>> }

TunnelPlacements == OverlapDirections \X TunnelDistances

TunnelVelocity(d, rt) ==
    VAdd(VScale(I(rt[1]), d), VScale(I(rt[2]), Quadrant(d, 1)))

\* the square of the toroidal distance from p to the centre of ob
ToroidalDistance2(p, ob) ==
    Add(Sq(WrapDelta(Sub(ob.x, p[1]), width)), Sq(WrapDelta(Sub(ob.y, p[2]), height)))

IsSquare(q) == Isqrt(q[1]) * Isqrt(q[1]) = q[1] /\ Isqrt(q[2]) * Isqrt(q[2]) = q[2]

\* every distance the update takes a square root of is rational
RationalDistances(a, obs) ==
    \A k \in 1 .. Len(obs) : IsSquare(ToroidalDistance2(a.position, obs[k]))

RationalUpdate(a, obs) ==
    /\ RationalDistances(IntegrateAll(ClampAll(<<a>>, obs))[1], obs)
    /\ \A k \in 1 .. Len(obs) - 1 :
          RationalDistances(ObstacleLoop(IntegrateAll(ClampAll(<<a>>, obs))[1],
                                         SubSeq(obs, 1, k), 1), obs)

InitTunnel ==
    /\ \E c \in TunnelCentres, rt \in TunnelVelocities, p \in TunnelPlacements :
         /\ agents = << set_velocity(NewAgent(c[1], c[2], NoController),
                                     TunnelVelocity(p[1], rt)) >>
         /\ \/ obstacles = << ObstacleNear(c, p[1], p[2]) >>
            \/ \E q \in TunnelPlacements :
                 /\ q # p
                 /\ obstacles = << ObstacleNear(c, p[1], p[2]), ObstacleNear(c, q[1], q[2]) >>
         /\ RationalUpdate(agents[1], obstacles)
    /\ haze_grid = EmptyGrid
    /\ time = I(0)
    /\ pc = <<"update", 0>>
    /\ last_call = NoCall
    /\ grid_at_start = EmptyGrid
    /\ before = <<>>
    /\ calls = 0

\* env.update()
TunnelUpdate ==
    /\ pc = <<"update", 0>>
    /\ before' = agents
    /\ EnvironmentUpdate
    /\ pc' = <<"updated", 0>>
    /\ UNCHANGED <<last_call, grid_at_start, calls>>

NextTunnel == TunnelUpdate

SpecTunnel == InitTunnel /\ [][NextTunnel]_vars

TunnelUpdated == pc = <<"updated", 0>>

\* the agent after steps 1 and 2 of the update: clamped, integrated, wrapped
TunnelIntegrated == IntegrateAll(ClampAll(before, obstacles))[1]

TunnelMinDist(k) == Add(before[1].radius, obstacles[k].radius)

\* the agent started the update clear of obstacle k
StartedOutside(k) == Le(TunnelMinDist(k), ObstacleDistance(before[1], obstacles[k]))

\* the agent is clear of obstacle k after the integration sub-step
IntegratedOutside(k) ==
    Le(Sq(TunnelMinDist(k)), ToroidalDistance2(TunnelIntegrated.position, obstacles[k]))

\* obstacle k was within 1.1 x (agent radius + obstacle radius) at the start
StartedInClampRange(k) ==
    Lt(ObstacleDistance(before[1], obstacles[k]), Mul(TunnelMinDist(k), SafetyMargin))

-----------------------------------------------------------------------------
(* Properties of the simulator specification: the agent list at the end of *)
(* Environment.update                                                      *)

\* the agent list after the agent-agent pass of the update that has just
\* returned
PairPushed == PairLoop(Integrated, 1, 2)

\* the agent-obstacle pass of that update moved no agent
NoObstaclePush == agents = PairPushed

\* agents i and j are distinct, do not coincide, and are closer than the sum
\* of their radii
OverlapAtEnd(i, j) == i # j /\ AgentsOverlap(agents[i], agents[j])

\* no two agents of the list are at the same position
NoneCoincide(as) ==
    \A i, j \in 1 .. Len(as) : i # j => as[i].position # as[j].position

InsideWorld(a) ==
    /\ Le(I(0), a.position[1]) /\ Lt(a.position[1], I(width))
    /\ Le(I(0), a.position[2]) /\ Lt(a.position[2], I(height))

\* C22 (as stated): at the end of every Environment.update every agent's
\* position lies inside the world, agents moved by the overlap resolution
\* of that step included.
C22_InsideWorldAtEnd ==
    JustUpdated => \A i \in 1 .. Len(agents) : InsideWorld(agents[i])

\* C22 (amended): every agent's position lies inside the world after the
\* integration sub-step, and at the end of Environment.update for every
\* agent that the overlap resolution did not move; the resolution moves
\* positions without wrapping them.
C22_InsideWorldUnlessPushed ==
    JustUpdated =>
        \A i \in 1 .. Len(agents) :
            /\ InsideWorld(Integrated[i])
            /\ agents[i].position = Integrated[i].position => InsideWorld(agents[i])

\* an agent crossed the right edge in the integration, was wrapped, was not
\* moved by the resolution, and is inside the world
C22_WrappedInside ==
    /\ JustUpdated
    /\ \E i \in 1 .. Len(agents) :
          /\ Le(I(width), Add(before[i].position[1], Mul(before[i].velocity[1], dt)))
          /\ agents[i].position = Integrated[i].position
          /\ InsideWorld(agents[i])

-----------------------------------------------------------------------------
(* Properties of the simulator specification: the order of the phases of   *)
(* Simulator.step                                                          *)

Positions(as) == [i \in 1 .. Len(as) |-> as[i].position]

\* a sense call: the decide call of the same agent follows; no position and
\* no grid cell changes
SensePhase ==
    pc[1] = "sense" =>
        /\ pc' = pc \/ pc' = <<"decide", pc[2]>>
        /\ Positions(agents') = Positions(agents)
        /\ haze_grid' = haze_grid

\* a decide call: the next agent's sense call follows, or the update after
\* the last agent; no position changes, and the grid changes by at most the
\* deposit into the agent's own cell
DecidePhase ==
    pc[1] = "decide" =>
        /\ pc' = IF pc[2] < Len(agents) THEN <<"sense", pc[2] + 1>> ELSE <<"update", 0>>
        /\ Positions(agents') = Positions(agents)
        /\ haze_grid' \in { haze_grid,
                            Deposit(haze_grid, GridIndex(agents[pc[2]].position)) }

\* the update: one decay of every cell of the grid as the deposits left it,
\* then clamp, integration with wrap, agent-agent pass, agent-obstacle pass
UpdatePhase ==
    pc[1] = "update" =>
        /\ pc' \in { <<"sense", 1>>, <<"done", 0>> }
        /\ haze_grid' = [c \in Cells |-> Mul(haze_grid[c], HazeDecay)]
        /\ agents' = [i \in 1 .. Len(agents) |->
                        ObstacleLoop(PairLoop(IntegrateAll(ClampAll(agents, obstacles)),
                                              1, 2)[i],
                                     obstacles, 1)]

\* C23: one Simulator.step senses and then decides (haze deposit included)
\* for each agent in list order, and only then runs Environment.update,
\* which decays every grid cell once, clamps, integrates and wraps, and
\* resolves agent-agent and then agent-obstacle overlaps; no position
\* changes before every agent has decided, and the decay comes after all
\* deposits of the step.
C23_PhaseOrder == [][SensePhase /\ DecidePhase /\ UpdatePhase]_vars

\* three agents have deposited into the same cell, one after the other, and
\* the update has decayed that cell once
C23_DecayedAfterDeposits ==
    /\ JustUpdated /\ Len(agents) = 3 /\ time = dt
    /\ \E c \in Cells : haze_grid[c] = Mul(HazeDecay, Mul(I(3), HazeDeposit))

-----------------------------------------------------------------------------
(* control/eph.py, control/eph_gradient.py: the haze modulation of the     *)
(* precision matrix by a controller that holds some self-haze              *)

ModulateColumns == { 1, 2, 3, 4, 6, 8, 12 }
ModulateRows == { 1, 2 }
ModulateSelfHaze == { I(0), Q(1, 20), Q(1, 2), Q(19, 20), I(1) }
ModulateEnvHaze == { I(0), Q(1, 2) }

\* a base precision without zero entries, different in every cell
GradedMatrix(nr, nt) == [r \in 1 .. nr |-> [t \in 1 .. nt |-> Q(r + t, 4)]]

ModulatePrecisions ==
    UNION { { OnesMatrix(nr, nt), GradedMatrix(nr, nt) } :
            nr \in ModulateRows, nt \in ModulateColumns }

InitModulate ==
    /\ \E kind \in {"EPHController", "GradientEPHController"}, h \in ModulateSelfHaze :
         agents = << [NewAgent(I(0), I(0), NewController(kind, 0))
                         EXCEPT !.controller.haze_self = h] >>
    /\ obstacles = <<>>
    /\ haze_grid = EmptyGrid
    /\ time = I(0)
    /\ pc = <<"modulate", 0>>
    /\ last_call = NoCall
    /\ grid_at_start = EmptyGrid
    /\ before = <<>>
    /\ calls = 0

\* the controller computes the modulated precision of one decide_action call
ApplyHaze(precision_matrix, env_haze_value) ==
    /\ pc = <<"modulate", 0>>
    /\ last_call' = [ agent |-> 1,
                      precision_matrix |-> precision_matrix,
                      env_haze_value |-> env_haze_value,
                      modulated |-> IF agents[1].controller.kind = "EPHController"
                                    THEN HazeModulated(agents[1].controller.haze_self,
                                                       precision_matrix, env_haze_value)
                                    ELSE apply_haze(agents[1].controller.haze_self,
                                                    precision_matrix, env_haze_value) ]
    /\ pc' = <<"modulated", 0>>
    /\ UNCHANGED <<agents, obstacles, haze_grid, time, grid_at_start, before, calls>>

NextModulate ==
    \E p \in ModulatePrecisions, e \in ModulateEnvHaze : ApplyHaze(p, e)

SpecModulate == InitModulate /\ [][NextModulate]_vars

\* a modulation with self-haze above 0 and no environmental haze has returned
SelfHazeOnly ==
    /\ pc = <<"modulated", 0>>
    /\ Lt(I(0), agents[1].controller.haze_self)
    /\ last_call.env_haze_value = I(0)

ModulatedNtheta == Cols(last_call.precision_matrix)

\* column t (counted from 0) holds the base precision times (1 - haze_self)^2
AttenuatedOnce(t) ==
    \A r \in 1 .. Rows(last_call.precision_matrix) :
        last_call.modulated[r][t + 1] =
            Mul(last_call.precision_matrix[r][t + 1],
                Sq(Sub(I(1), agents[1].controller.haze_self)))

\* column t (counted from 0) holds the base precision
LeftAlone(t) ==
    \A r \in 1 .. Rows(last_call.precision_matrix) :
        last_call.modulated[r][t + 1] = last_call.precision_matrix[r][t + 1]

\* C24 (as stated): with haze_self > 0 and env_haze = 0 the columns of a
\* sector that is N_theta/3 bins wide and contains the forward bin
\* N_theta/2 are multiplied by (1 - haze_self)^2 exactly once, and every
\* other column equals the base precision (N_theta a multiple of 3).
C24_SectorThirdWide ==
    (SelfHazeOnly /\ ModulatedNtheta % 3 = 0) =>
        \E S \in SUBSET (0 .. ModulatedNtheta - 1) :
            /\ 3 * Cardinality(S) = ModulatedNtheta
            /\ ModulatedNtheta \div 2 \in S
            /\ \A t \in 0 .. ModulatedNtheta - 1 :
                  IF t \in S THEN AttenuatedOnce(t) ELSE LeftAlone(t)

\* C24 (amended): with haze_self > 0 and env_haze = 0 the columns multiplied
\* by (1 - haze_self)^2, exactly once each, are those at most int(N_theta/6)
\* bins away from the bin int(N_theta/2), which are 2 * int(N_theta/6) + 1
\* columns; every other column equals the base precision.
C24_SectorOddWide ==
    SelfHazeOnly =>
        \A t \in 0 .. ModulatedNtheta - 1 :
            IF IAbs(t - ModulatedNtheta \div 2) <= ModulatedNtheta \div 6
            THEN AttenuatedOnce(t)
            ELSE LeftAlone(t)

\* twelve bins, half the precision gone in front: bins 4 to 8 are scaled by
\* 1/4 and bins 3 and 9 are not
C24_FiveOfTwelve ==
    /\ SelfHazeOnly
    /\ ModulatedNtheta = 12
    /\ agents[1].controller.haze_self = Q(1, 2)
    /\ last_call.precision_matrix = GradedMatrix(2, 12)
    /\ \A t \in 4 .. 8 : AttenuatedOnce(t) /\ ~LeftAlone(t)
    /\ LeftAlone(3) /\ LeftAlone(9)

-----------------------------------------------------------------------------
(* Properties of the controller specification: the action the sampling     *)
(* controller returns                                                      *)

\* the precision the call that has just returned evaluated its candidates with
CallPrecision ==
    HazeModulated(agents[1].controller.haze_self, last_call.args.precision_matrix,
                  last_call.args.env_haze_value)

\* the cost that call computed for candidate k
CandidateCost(k) ==
    evaluate_action(before[1], Candidates(before[1])[k], last_call.args.spm_tensor,
                    CallPrecision, last_call.args.preferred_velocity)

\* candidate k attains the minimum cost and every candidate before it costs more
FirstMinimum(k) ==
    /\ \A j \in 1 .. n_samples + 2 : Le(CandidateCost(k), CandidateCost(j))
    /\ \A j \in 1 .. k - 1 : Lt(CandidateCost(k), CandidateCost(j))

\* C26: the sampling controller returns a member of its candidate set (16
\* headings at max_speed, then stop, then the current velocity) that attains
\* the minimum cost, and among several that do, the first in that order.
C26_FirstArgmin ==
    SamplingCalled =>
        \E k \in 1 .. n_samples + 2 :
            /\ last_call.action = Candidates(before[1])[k]
            /\ FirstMinimum(k)

\* surrounded on all sides the controller returns stop, the 17th candidate,
\* which costs less than each of the 16 headings and as much as the 18th
C26_StopBeatsHeadings ==
    /\ SamplingCalled
    /\ last_call.args.spm_tensor = SurroundedSpm(2, 6)
    /\ last_call.action = V(0, 0)
    /\ FirstMinimum(17)
    /\ CandidateCost(18) = CandidateCost(17)

-----------------------------------------------------------------------------
(* control/eph_gradient.py: one call of decide_action of a gradient        *)
(* controller built with 0, 1 or 5 iterations, for an agent at rest or     *)
(* moving along an axis, with a goal velocity, inside an obstacle, or on   *)
(* its random walk                                                         *)

GradientIterations == { 0, 1, 5 }
GradientVelocities == { V(0, 0), V(50, 0), V(-30, 0), V(0, 20) }

\* the heading drawn by the constructor, in sixteenths of a turn
GradientHeadings == { 3, 9 }

GradientInputs ==
    { [ spm_tensor |-> ZeroSpm(2, 6), precision_matrix |-> OnesMatrix(2, 6),
        env_haze_value |-> I(0), preferred_velocity |-> pv ] :
      pv \in { None, V(10, 0), V(100, 0), V(0, -80), V(33, 44) } }
    \cup
    { [ spm_tensor |-> SurroundedSpm(2, 6), precision_matrix |-> OnesMatrix(2, 6),
        env_haze_value |-> I(0), preferred_velocity |-> pv ] :
      pv \in { None, V(100, 0) } }

InitGradient ==
    /\ \E n \in GradientIterations, v \in GradientVelocities, angle \in GradientHeadings :
         agents = << [NewAgent(I(0), I(0), NewGradientEPHController(angle))
                         EXCEPT !.controller.n_iterations = n, !.velocity = v] >>
    /\ obstacles = <<>>
    /\ haze_grid = EmptyGrid
    /\ time = I(0)
    /\ pc = <<"driver", 0>>
    /\ last_call = NoCall
    /\ grid_at_start = EmptyGrid
    /\ before = <<>>
    /\ calls = 0

\* controller.decide_action(spm, precision, env_haze, pv); start and target
\* are the values of action and pv_jax when the descent loop is entered
GradientDecide(in) ==
    /\ pc = <<"driver", 0>>
    /\ LET a == agents[1]
           ctl == UpdateSelfHaze(a.controller, Norm(a.velocity))
           init == GradientInit(a, ctl, in.spm_tensor, in.preferred_velocity,
                                ctl.random_target_angle)
           out == Gradient_decide_action_descent(a, in.spm_tensor, in.precision_matrix,
                                                 in.env_haze_value, in.preferred_velocity)
       IN  /\ agents' = << out.agent >>
           /\ last_call' = [ agent |-> 1, args |-> in, start |-> init.action,
                             target |-> init.pv, action |-> out.action ]
    /\ before' = agents
    /\ pc' = <<"returned", 0>>
    /\ UNCHANGED <<obstacles, haze_grid, time, grid_at_start, calls>>

NextGradient == \E in \in GradientInputs : GradientDecide(in)

SpecGradient == InitGradient /\ [][NextGradient]_vars

GradientReturned == pc = <<"returned", 0>>

\* C27 (as stated): the descent loop of the gradient controller starts at
\* the agent's current velocity in all cases: with a preferred velocity
\* supplied, with the inside-obstacle zero target, and with the random-walk
\* target.
C27_StartsAtVelocity ==
    GradientReturned => last_call.start = before[1].velocity

\* C27 (amended): the descent loop starts at the preferred velocity when one
\* is supplied, and at the agent's current velocity otherwise, which is with
\* the inside-obstacle zero target and with the random-walk target.
C27_StartsAtGoalOrVelocity ==
    GradientReturned =>
        last_call.start = IF last_call.args.preferred_velocity # None
                          THEN last_call.args.preferred_velocity
                          ELSE before[1].velocity

\* inside an obstacle and moving: the target is zero and the descent starts
\* at the velocity
C27_EscapeFromVelocity ==
    /\ GradientReturned
    /\ last_call.args.preferred_velocity = None
    /\ last_call.args.spm_tensor = SurroundedSpm(2, 6)
    /\ last_call.target = V(0, 0)
    /\ before[1].velocity = V(50, 0)
    /\ last_call.start = V(50, 0)

-----------------------------------------------------------------------------
(* control/eph_gradient.py, debug_inside_obstacle.py: the value and the    *)
(* gradient of the cost for the test velocities of an agent that has       *)
(* occupancy in its nearest bins                                           *)

\* jnp.sum(close_occupancy * precision[:2, :]) * 100.0, for the action the
\* cost is evaluated at
being_inside_penalty(action, spm_tensor, precision) ==
    LET occupancy == spm_tensor[1]
        k == IF Rows(occupancy) < 2 THEN Rows(occupancy) ELSE 2
    IN  Mul(MatSum([r \in 1 .. k |->
                      [t \in 1 .. Cols(occupancy) |->
                         Mul(occupancy[r][t], precision[r][t])]]),
            I(100))

\* M_meta: the squared distance to the preferred velocity when
\* |preferred_vel| > 1, else the speed reward
M_meta(action, preferred_vel) ==
    IF Lt(I(1), Norm2(preferred_vel))
    THEN Norm2(VSub(action, preferred_vel))
    ELSE Mul(Q(-1, 10), Norm(action))

\* GradientEPHController._cost_function
cost_function(a, action, spm_tensor, precision, preferred_vel) ==
    Add(Add(Risk(a, action, spm_tensor, precision),
            being_inside_penalty(action, spm_tensor, precision)),
        Mul(lambda_weight, M_meta(action, preferred_vel)))

PenaltyRows == 3
PenaltyColumns == 6
PenaltyActions == { V(0, 0), V(10, 0), V(-10, 0), V(0, 10), V(0, -10) }
PenaltyTargets == { V(25, 0), V(0, 0) }
PenaltySpms ==
    { SurroundedSpm(PenaltyRows, PenaltyColumns),
      SpmAt(PenaltyRows, PenaltyColumns, 0, 3, I(1)),
      SpmAt(PenaltyRows, PenaltyColumns, 1, 2, Q(1, 2)),
      SpmAt(PenaltyRows, PenaltyColumns, 2, 3, I(1)) }
PenaltyPrecisions ==
    { OnesMatrix(PenaltyRows, PenaltyColumns), ZeroMatrix(PenaltyRows, PenaltyColumns),
      [r \in 1 .. PenaltyRows |-> [t \in 1 .. PenaltyColumns |-> PrecisionRow(r - 1)]] }

InitPenalty ==
    /\ agents = << NewAgent(I(120), I(100), NewGradientEPHController(0)) >>
    /\ obstacles = <<>>
    /\ haze_grid = EmptyGrid
    /\ time = I(0)
    /\ pc = <<"cost", 0>>
    /\ \E in \in [ action : PenaltyActions, preferred_vel : PenaltyTargets,
                   spm_tensor : PenaltySpms, precision : PenaltyPrecisions ] :
         last_call = [ agent |-> 1, args |-> in ]
    /\ grid_at_start = EmptyGrid
    /\ before = <<>>
    /\ calls = 0

\* cost = controller._cost_function(action, spm, precision, pv, 0.0) and
\* grad = controller.grad_cost_fn(action, spm, precision, pv, 0.0)
CallCostAndGrad ==
    /\ pc = <<"cost", 0>>
    /\ LET in == last_call.args
       IN  last_call' =
             [ agent |-> 1, args |-> in,
               cost |-> cost_function(agents[1], in.action, in.spm_tensor, in.precision,
                                      in.preferred_vel),
               grad |-> cost_gradient(agents[1], in.action, in.spm_tensor, in.precision,
                                      in.preferred_vel) ]
    /\ pc' = <<"cost", 1>>
    /\ UNCHANGED <<agents, obstacles, haze_grid, time, grid_at_start, before, calls>>

NextPenalty == CallCostAndGrad

SpecPenalty == InitPenalty /\ [][NextPenalty]_vars

CostCalled == pc = <<"cost", 1>>

\* the penalty term of the cost the call returned
PenaltyTerm ==
    being_inside_penalty(last_call.args.action, last_call.args.spm_tensor,
                         last_call.args.precision)

\* the cost the call would have returned without the penalty term
CostWithoutPenalty == Sub(last_call.cost, PenaltyTerm)

\* C28 (as stated): when the precision-weighted occupancy of the two
\* innermost radial bins is non-zero, the value of the inside-obstacle
\* penalty differs between actions, so that it contributes a non-zero
\* component to the gradient of J with respect to the action.
C28_PenaltyVaries ==
    (CostCalled /\ PenaltyTerm # I(0)) =>
        \E other \in PenaltyActions :
            being_inside_penalty(other, last_call.args.spm_tensor, last_call.args.precision)
                # PenaltyTerm

\* surrounded by occupancy in the nearest ring, at rest, no goal: the
\* penalty is 600 for every test velocity, and the gradient is that of the
\* risk and speed terms alone, which is zero
C28_PenaltyWithoutForce ==
    /\ CostCalled
    /\ last_call.args.spm_tensor = SurroundedSpm(PenaltyRows, PenaltyColumns)
    /\ last_call.args.precision = OnesMatrix(PenaltyRows, PenaltyColumns)
    /\ last_call.args.action = V(0, 0)
    /\ last_call.args.preferred_vel = V(0, 0)
    /\ \A other \in PenaltyActions :
          being_inside_penalty(other, last_call.args.spm_tensor, last_call.args.precision)
              = I(600)
    /\ last_call.cost = I(600)
    /\ last_call.grad = V(0, 0)

\* the square of the norm of the returned action is at most max_speed^2
WithinMaxSpeed == Le(Norm2(last_call.action), Sq(before[1].max_speed))

\* each component of the returned action is within 10 * learning_rate of
\* the component the descent started with
OneClippedStep ==
    \A c \in 1 .. 2 :
        Le(Abs(Sub(last_call.action[c], last_call.start[c])), Mul(GradientClip, learning_rate))

\* C29 (as stated): the action decide_action returns has norm at most
\* max_speed for every configured number of iterations, 0 included, every
\* starting velocity and every preferred velocity; one iteration changes
\* each component by at most 10 * learning_rate before the norm rescale.
C29_NormBounded ==
    GradientReturned =>
        /\ WithinMaxSpeed
        /\ (before[1].controller.n_iterations = 1
            /\ Lt(Norm2(last_call.action), Sq(before[1].max_speed))) => OneClippedStep

\* C29 (amended): with at least one iteration the returned action has norm
\* at most max_speed; with 0 iterations it is the value the descent would
\* have started with, the preferred velocity if one is supplied, whatever
\* its norm.  One iteration changes each component by at most
\* 10 * learning_rate before the norm rescale.
C29_NormBoundedOnceIterated ==
    GradientReturned =>
        /\ before[1].controller.n_iterations >= 1 => WithinMaxSpeed
        /\ before[1].controller.n_iterations = 0 => last_call.action = last_call.start
        /\ (before[1].controller.n_iterations = 1
            /\ Lt(Norm2(last_call.action), Sq(before[1].max_speed))) => OneClippedStep

\* five iterations from a preferred velocity of norm 100: the action
\* returned has norm max_speed
C29_RescaledToMaxSpeed ==
    /\ GradientReturned
    /\ before[1].controller.n_iterations = 5
    /\ last_call.start = V(100, 0)
    /\ last_call.action = V(50, 0)

-----------------------------------------------------------------------------
(* Properties of the controller specification: the random-walk heading of  *)
(* the gradient controller over a run of calls with the same arguments     *)

\* the gradient controller's decide_action has returned
GradientCalled == Called /\ agents[1].controller.kind = "GradientEPHController"

\* the call had no preferred velocity and near-field occupancy at most 0.5
RandomWalkCall ==
    /\ last_call.args.preferred_velocity = None
    /\ ~Lt(Q(1, 2), CloseOccupancy(last_call.args.spm_tensor))

\* the call drew a new heading: it left the timer at 0
Redrawn == agents[1].controller.random_target_timer = 0

HeadingHeld ==
    agents[1].controller.random_target_angle = before[1].controller.random_target_angle

\* C30 (as stated): in a run of gradient-controller calls with no preferred
\* velocity and near-field occupancy at most 0.5 the random-walk heading is
\* re-drawn every 50 calls (on a call whose number in the run is a multiple
\* of 50, or on the call after it) and held in between; a call with a
\* preferred velocity or with near-field occupancy above 0.5 neither
\* re-draws the heading nor advances the timer.
C30_RedrawnEvery50 ==
    GradientCalled =>
        IF RandomWalkCall
        THEN /\ Redrawn => calls % 50 \in {0, 1}
             /\ ~Redrawn => HeadingHeld
        ELSE /\ HeadingHeld
             /\ agents[1].controller.random_target_timer =
                   before[1].controller.random_target_timer

\* the second re-draw of a random-walk run comes with call 102: the timer
\* had counted the 50 calls since the re-draw of call 51
C30_SecondRedrawAt102 ==
    /\ GradientCalled /\ RandomWalkCall
    /\ calls = 102
    /\ before[1].controller.random_target_timer = 50
    /\ Redrawn
    /\ ~HeadingHeld

====
